---- MODULE Spec2Model ----
(***************************************************************************)
(* A model of levmv/mig: the pooled request Context, the Response wrapper, *)
(* the execution engine (Mig.Execute) with its panic recovery and error    *)
(* handler, and the route-group middleware composition.                    *)
(*                                                                         *)
(* Spec       the engine serving one request after the other: Execute, the *)
(*            operations of the handler chain on the pooled Context, the   *)
(*            recovery and the error handler.                              *)
(* SpecConc   goroutines of the transport layer running Execute            *)
(*            concurrently on one Mig instance, sharing Mig.pool.          *)
(* SpecResp   the Response wrapper and the default error handler: what the *)
(*            chain writes, what the sink takes, the errors handled.       *)
(* SpecCtx    the request-scoped state of the Context: the query cache,    *)
(*            Put / Get and the request id, over pooled reuse.             *)
(* SpecGroup  the setup phase: Group / Use / Handle / HandleRaw build the  *)
(*            group tree and register composed handlers, and the mux       *)
(*            dispatches requests to them.                                 *)
(***************************************************************************)
EXTENDS Integers, Sequences, FiniteSets, TLC

(***************************************************************************)
(* Bounds of the model.                                                    *)
(***************************************************************************)
NumReq == 2         \* goroutines serving requests concurrently (SpecConc)
MaxCtx == 2         \* Context objects pool.New may allocate (SpecConc)
MaxServed == 3      \* requests served in one behaviour
MaxOps == 2         \* Context operations one handler chain performs (Spec)
MaxGroups == 3      \* RouteGroups, the root included (SpecGroup)
MaxMw == 3          \* middleware values registered (SpecGroup)
MaxRoutes == 1      \* patterns registered with the mux (SpecGroup)
MaxWrite == 2       \* bytes a handler passes to one Response.Write (SpecResp)

(***************************************************************************)
(* Program constants.                                                      *)
(***************************************************************************)
StatusOK == 200
StatusNoContent == 204
StatusFound == 302
StatusNotModified == 304
StatusBadRequest == 400
StatusUnauthorized == 401
StatusNotFound == 404
StatusInternalServerError == 500

RequestIDHeader == "X-Request-ID"

Threads == 1..NumReq
Ctxs == 1..MaxCtx

\* http.StatusText, on the codes the model uses.
StatusText(code) ==
    CASE code = StatusOK -> "OK"
      [] code = StatusNoContent -> "No Content"
      [] code = StatusFound -> "Found"
      [] code = StatusNotModified -> "Not Modified"
      [] code = StatusBadRequest -> "Bad Request"
      [] code = StatusUnauthorized -> "Unauthorized"
      [] code = StatusNotFound -> "Not Found"
      [] code = StatusInternalServerError -> "Internal Server Error"
      [] OTHER -> ""

(***************************************************************************)
(* Errors.  A Go error is modelled by its Unwrap chain, outermost layer    *)
(* first: an *HTTPError layer carries Code, Message and Stack and its      *)
(* Internal is the rest of the chain; a plain layer is an errors.New /     *)
(* fmt.Errorf value whose text is Message; the abort layer is              *)
(* http.ErrAbortHandler.  The empty chain is the nil error.                *)
(***************************************************************************)
NoError == <<>>

HTTPLayer(code, msg, stack) ==
    [kind |-> "http", Code |-> code, Message |-> msg, Stack |-> stack]

PlainLayer(msg) == [kind |-> "plain", Code |-> 0, Message |-> msg, Stack |-> ""]

AbortLayer == [kind |-> "abort", Code |-> 0, Message |-> "net/http: abort Handler", Stack |-> ""]

ErrAbortHandler == <<AbortLayer>>

\* NewHTTPError(code): Code, the status text as Message, no Internal, no Stack.
NewHTTPError(code) == <<HTTPLayer(code, StatusText(code), "")>>

\* ErrNotFound, the package's standard 404.
ErrNotFound == NewHTTPError(StatusNotFound)

\* Unwrap of the outermost layer.
Internal(err) == Tail(err)

\* errors.Is(err, http.ErrAbortHandler): some layer of the chain is the sentinel.
IsAbort(err) == \E i \in 1..Len(err) : err[i].kind = "abort"

\* errors.As(err, &e) for *HTTPError: the first HTTPError layer of the chain.
HasHTTPError(err) == \E i \in 1..Len(err) : err[i].kind = "http"

FirstHTTPError(err) ==
    LET i == CHOOSE j \in 1..Len(err) :
                 /\ err[j].kind = "http"
                 /\ \A k \in 1..(j - 1) : err[k].kind # "http"
    IN  SubSeq(err, i, Len(err))


(***************************************************************************)
(* Values a handler chain or an error handler may panic with: a non-error  *)
(* value (a string), a plain error, the abort sentinel itself, or an error *)
(* wrapping the sentinel.                                                  *)
(***************************************************************************)
NoPanic == [err |-> NoError, set |-> FALSE, isErr |-> FALSE, str |-> ""]

PanicString(s) == [err |-> NoError, set |-> TRUE, isErr |-> FALSE, str |-> s]

PanicError(e) == [err |-> e, set |-> TRUE, isErr |-> TRUE, str |-> ""]

PanicValues ==
    { PanicString("oh no, a panic!"),
      PanicError(<<PlainLayer("boom")>>),
      PanicError(ErrAbortHandler),
      PanicError(<<PlainLayer("proxy"), AbortLayer>>) }

\* Values an application's error handler may panic with.
HandlerPanics == { PanicString("error handler failed"), PanicError(ErrAbortHandler) }

\* Errors a handler chain returns.
ReturnedErrors == { ErrNotFound, <<PlainLayer("db down")>> }

\* Errors handed to the error handler (SpecResp): structured ones with and
\* without an internal cause, with a body-less code, with a message of their own,
\* a plain error, and a plain error wrapping a structured one (%w).
HandledErrors ==
    { ErrNotFound,
      <<HTTPLayer(StatusNotFound, "no such user", ""), PlainLayer("sql: no rows")>>,
      NewHTTPError(StatusNoContent),
      NewHTTPError(StatusNotModified),
      <<PlainLayer("db down")>>,
      <<PlainLayer("lookup"), HTTPLayer(StatusNotFound, "Not Found", "")>> }

(***************************************************************************)
(* Loggers.  A *slog.Logger is modelled by the attributes it carries;      *)
(* Logger.With returns a new logger and leaves the receiver as it was.     *)
(***************************************************************************)
BaseLogger == <<>>

LoggerWith(logger, key, value) == Append(logger, <<key, value>>)

LoggerHasKey(logger, key) == \E i \in 1..Len(logger) : logger[i][1] = key

(***************************************************************************)
(* Requests.  An *http.Request: its number n (its identity), the incoming  *)
(* X-Request-ID header, whether Accept contains application/json, the raw  *)
(* query as key/value pairs, vals, the values of its context.Context, the  *)
(* Authorization header auth and the Body.                                 *)
(***************************************************************************)
NoVals == [k \in {} |-> ""]

\* Authorization headers: none, another scheme, Basic credentials.
NoAuth == [scheme |-> "", u |-> "", p |-> ""]

BearerAuth == [scheme |-> "Bearer", u |-> "", p |-> ""]

\* Request.SetBasicAuth(u, p)
BasicCredentials(u, p) == [scheme |-> "Basic", u |-> u, p |-> p]

\* A request body: the top-level JSON values it holds, in order.
NoBody == <<>>

QueryStrings == { <<>>, << <<"x", "1">> >> }

IncomingIDs == { "", "abc" }

\* Query strings of requests (SpecCtx): none, ?x=1, ?x=, ?x=1&x=2, ?y=1, ?x=%zz
\* and ?x=%zz&x=2.
QueryCases ==
    { <<>>,
      << <<"x", "1">> >>,
      << <<"x", "">> >>,
      << <<"x", "1">>, <<"x", "2">> >>,
      << <<"y", "1">> >>,
      << <<"x", "%zz">> >>,
      << <<"x", "%zz">>, <<"x", "2">> >> }

NewRequest(n, rid, accept, q) ==
    [n |-> n, rid |-> rid, accept |-> accept, q |-> q, vals |-> NoVals,
     auth |-> NoAuth, Body |-> NoBody, Method |-> "GET"]

NoRequest == NewRequest(0, "", FALSE, <<>>)

\* Request.WithContext(context.WithValue(Request.Context(), key, value))
WithValue(r, key, value) == [r EXCEPT !.vals = (key :> value) @@ r.vals]

\* Request.Context().Value(key); "" stands for nil.
Value(r, key) == IF key \in DOMAIN r.vals THEN r.vals[key] ELSE ""

\* url.Values of Request.URL.Query(): key -> the values in order.
RECURSIVE ValuesOf(_, _)
ValuesOf(q, key) ==
    IF q = <<>> THEN <<>>
    ELSE IF Head(q)[1] = key THEN <<Head(q)[2]>> \o ValuesOf(Tail(q), key)
         ELSE ValuesOf(Tail(q), key)

\* A pair the parser cannot decode: "%zz" stands for a value (or key) that is not
\* valid percent-encoding.
Malformed(pair) == pair[1] = "%zz" \/ pair[2] = "%zz"

\* url.ParseQuery skips the pairs it cannot decode, and URL.Query() drops its error.
WellFormed(q) == SelectSeq(q, LAMBDA pair : ~Malformed(pair))

ParseQuery(q) ==
    [key \in {WellFormed(q)[i][1] : i \in 1..Len(WellFormed(q))} |->
        ValuesOf(WellFormed(q), key)]

NilQuery == [set |-> FALSE, m |-> ParseQuery(<<>>)]

(***************************************************************************)
(* The response sink (the transport's http.ResponseWriter of one request): *)
(* the WriteHeader calls it received, its header map, the chunks written   *)
(* to it, cnt, the byte count it returned to each Write call, and sent,    *)
(* the headers that went out with the first WriteHeader it received.       *)
(***************************************************************************)
NoHeaders == [k \in {} |-> ""]

NewSink(n) ==
    [n |-> n, wh |-> <<>>, hdr |-> NoHeaders, body |-> <<>>, cnt |-> <<>>,
     sent |-> NoHeaders]

Chunk(kind, code, msg) == [Code |-> code, Message |-> msg, k |-> kind]

\* len(b) of the bytes handed to Write: a handler's data, or one payload.
LenOf(chunk) == IF chunk.k = "raw" THEN MaxWrite ELSE 1

\* The status the client sees: the first WriteHeader the sink received, 200 if none.
SinkStatus(s) == IF s.wh = <<>> THEN StatusOK ELSE s.wh[1]

(***************************************************************************)
(* The state.                                                              *)
(***************************************************************************)
VARIABLES
    MigLogger,      \* Mig.Logger, the base logger
    ErrorHandler,   \* Mig.ErrorHandler: "default" or "custom"
    pool,           \* Mig.pool: the idle Contexts
    ctx,            \* the Context objects (and their Response wrappers)
    served,         \* requests accepted so far
    exec,           \* per goroutine: the position of its Execute call
    req,            \* per goroutine: the request r handed to Execute
    sink,           \* per goroutine: the sink rw handed to Execute
    log,            \* per goroutine: entries logged while serving its request
    ehLog,          \* per goroutine: the calls Execute made to the error handler
    groups,         \* the RouteGroup objects
    routes,         \* the patterns registered with the mux
    nextMw,         \* middleware values created so far
    trace,          \* what the last dispatched request's chain emitted
    srv             \* the HTTP server of the instance: Start, Run, Shutdown

engineVars == <<MigLogger, ErrorHandler, pool, ctx, served, exec, req, sink, log, ehLog>>

groupVars == <<groups, routes, nextMw, trace>>

vars == <<MigLogger, ErrorHandler, pool, ctx, served, exec, req, sink, log, ehLog,
          groups, routes, nextMw, trace, srv>>

\* The server before Start: pc its position (new, serving, shutdown while
\* m.http.Shutdown waits, stopped once Shutdown has returned), sig whether an OS
\* signal arrived, ctxDone whether the context given to New is cancelled, elapsed
\* whether ShutdownTimeout has passed since Shutdown began, err whether Shutdown
\* returned an error and left the requests in flight when it returned.
NewServer ==
    [err |-> FALSE, pc |-> "new", sig |-> FALSE, ctxDone |-> FALSE,
     elapsed |-> FALSE, left |-> 0]

\* A Context that pool.New has not allocated yet.
Unmade ==
    [made |-> FALSE, Request |-> NoRequest, rw |-> 0, status |-> 0, written |-> 0,
     query |-> NilQuery, Logger |-> BaseLogger]

\* pool.New: &Context{Logger: m.Logger, Mig: &m}
PoolNew(logger) == [Unmade EXCEPT !.made = TRUE, !.Logger = logger]

\* What a downstream handler next(c) does when it is called: whether it writes
\* to the response, and the error it returns or the value it panics with.
NextDoes(w, ret, pv) == [w |-> w, ret |-> ret, pv |-> pv]

\* The record of a downstream handler: not called, or called and what it did.
NotCalled == [called |-> FALSE, next |-> NextDoes(FALSE, NoError, NoPanic)]

Called(next) == [called |-> TRUE, next |-> next]

\* An Execute call: pc its position, cont the Context it holds, ops the Context
\* operations its chain made, puts its calls of pool.Put, path how the error
\* handler was reached, arg the error handed to it, esc the panic leaving
\* Execute, rid whether middleware.RequestID ran, stale whether the Context it
\* got carried a previous request's status, bytes, query cache, values and logger,
\* lastId the last non-empty id this request gave SetRequestID, pv the value the
\* chain panicked with, pst the status recorded when it did, ret the error the
\* chain returned, kv the last value this request Put under each key, op the
\* handler or middleware the chain was made of (with its input in), down whether
\* and how the downstream handler ran.
IdleExec == [rid |-> FALSE, pc |-> "idle", ret |-> NoError, pv |-> NoPanic,
             cont |-> 0, ops |-> 0, puts |-> 0, path |-> "", arg |-> NoError,
             esc |-> NoPanic, stale |-> FALSE, lastId |-> "", pst |-> 0, kv |-> NoVals,
             op |-> "", in |-> "", down |-> NotCalled]

\* The previous use of c wrote a status and bytes, read the query, stored a
\* request id and left a scoped logger.
UsedBefore(c, ml) ==
    /\ c.made
    /\ c.status # 0
    /\ c.written > 0
    /\ c.query.set
    /\ "requestIDKey" \in DOMAIN c.Request.vals
    /\ c.Logger # ml

(***************************************************************************)
(* Response and Context methods.  They act on an environment e: the        *)
(* Context c (with its Response wrapper), the sink s its Response is bound *)
(* to, the base logger ml (Mig.Logger), the log lg written so far and r,   *)
(* the count the last Write returned.                                      *)
(***************************************************************************)

\* A WriteHeader that records the code of every call.
RespWriteHeaderLast(e, code) ==
    [e EXCEPT !.c.status = code,
              !.s.sent = IF e.s.wh = <<>> THEN e.s.hdr ELSE @,
              !.s.wh = Append(@, code)]

\* Response.WriteHeader: record the first status, always forward to the sink.
RespWriteHeader(e, code) ==
    [e EXCEPT !.c.status = IF @ = 0 THEN code ELSE @,
              !.s.sent = IF e.s.wh = <<>> THEN e.s.hdr ELSE @,
              !.s.wh = Append(@, code)]

\* A Write that counts the bytes it was asked to write.
RespWriteRequested(e, chunk, n) ==
    LET e1 == IF e.c.status = 0 THEN RespWriteHeader(e, StatusOK) ELSE e
    IN  [e1 EXCEPT !.s.body = IF n > 0 THEN Append(@, chunk) ELSE @,
                   !.s.cnt = Append(@, n),
                   !.c.written = @ + LenOf(chunk),
                   !.r = LenOf(chunk)]

\* Response.Write: an implicit 200, then forward; n is the count the sink returns,
\* r the count Write returns.
RespWrite(e, chunk, n) ==
    LET e1 == IF e.c.status = 0 THEN RespWriteHeader(e, StatusOK) ELSE e
    IN  [e1 EXCEPT !.s.body = IF n > 0 THEN Append(@, chunk) ELSE @,
                   !.s.cnt = Append(@, n),
                   !.c.written = @ + n,
                   !.r = n]

\* The value of header name the client received, "" when it was not among the
\* headers that went out.
HeaderSent(s, name) == IF name \in DOMAIN s.sent THEN s.sent[name] ELSE ""

\* Response.Status
RespStatus(c) == IF c.status = 0 THEN StatusOK ELSE c.status

\* Response.Written
RespWritten(c) == c.written

\* textproto.CanonicalMIMEHeaderKey; the other header names of the model stand
\* for their canonical form.
CanonicalHeaderKey(name) == IF name = "content-type" THEN "Content-Type" ELSE name

\* Response.Header().Set(name, value): the header map is the sink's.
HeaderSet(e, name, value) ==
    [e EXCEPT !.s.hdr = (CanonicalHeaderKey(name) :> value) @@ @]

\* Header.Get: "" when the header is not set.
HeaderGet(s, name) ==
    IF CanonicalHeaderKey(name) \in DOMAIN s.hdr THEN s.hdr[CanonicalHeaderKey(name)]
    ELSE ""

\* The Reset of the first generation of the Context: the handles and the query
\* cache only.
ResetHandlesOnly(c, r, rw, ml) ==
    [c EXCEPT !.Request = r, !.rw = rw, !.query = NilQuery]

\* A Reset that leaves the logger of the previous request in place.
ResetKeepLogger(c, r, rw, ml) ==
    [c EXCEPT !.Request = r, !.rw = rw, !.status = 0, !.written = 0,
              !.query = NilQuery]

\* Context.Reset(r, rw)
CtxReset(c, r, rw, ml) ==
    [c EXCEPT !.Request = r,
              !.rw = rw,
              !.status = 0,
              !.written = 0,
              !.query = NilQuery,
              !.Logger = ml]

\* A Put that starts from an empty context.Context.
CtxPutFresh(c, name, value) == [c EXCEPT !.Request.vals = (name :> value)]

\* Context.Put(name, value)
CtxPut(c, name, value) == [c EXCEPT !.Request = WithValue(@, name, value)]

\* Context.Get(name)
CtxGet(c, name) == Value(c.Request, name)

\* RequestIDFromContext(c.Request.Context())
CtxRequestID(c) == Value(c.Request, "requestIDKey")

\* A SetRequestID that leaves a response header set by an earlier call as it is.
CtxSetRequestIDKeepHeader(e, id) ==
    IF id = "" THEN e
    ELSE LET e1 == [e EXCEPT !.c.Request = WithValue(@, "requestIDKey", id)]
             e2 == IF RequestIDHeader \in DOMAIN e1.s.hdr THEN e1
                   ELSE HeaderSet(e1, RequestIDHeader, id)
         IN  [e2 EXCEPT !.c.Logger = LoggerWith(@, "id", id)]

\* A SetRequestID without the early return for the empty id.
CtxSetRequestIDUnguarded(e, id) ==
    LET e1 == [e EXCEPT !.c.Request = WithValue(@, "requestIDKey", id)]
        e2 == HeaderSet(e1, RequestIDHeader, id)
    IN  [e2 EXCEPT !.c.Logger = LoggerWith(@, "id", id)]

\* Context.SetRequestID(id)
CtxSetRequestID(e, id) ==
    IF id = "" THEN e
    ELSE LET e1 == [e EXCEPT !.c.Request = WithValue(@, "requestIDKey", id)]
             e2 == HeaderSet(e1, RequestIDHeader, id)
         IN  [e2 EXCEPT !.c.Logger = LoggerWith(@, "id", id)]

\* The lazy parse shared by QueryParam and HasQueryParam.
CtxLoadQuery(c) ==
    IF c.query.set THEN c
    ELSE [c EXCEPT !.query = [set |-> TRUE, m |-> ParseQuery(c.Request.q)]]

\* Context.HasQueryParam(name): the answer (the cache is CtxLoadQuery(c)).
CtxHasQueryParam(c, name) == name \in DOMAIN CtxLoadQuery(c).query.m

\* A QueryParam that falls back to the default for an empty value.
CtxQueryParamNonEmpty(c, name, def) ==
    LET m == CtxLoadQuery(c).query.m
    IN  IF name \in DOMAIN m /\ Len(m[name]) > 0 /\ m[name][1] # ""
        THEN m[name][1]
        ELSE def

\* Context.QueryParam(name, def): the answer (the cache is CtxLoadQuery(c)).
CtxQueryParam(c, name, def) ==
    LET m == CtxLoadQuery(c).query.m
    IN  IF name \in DOMAIN m
        THEN IF Len(m[name]) > 0 THEN m[name][1] ELSE ""
        ELSE def

(***************************************************************************)
(* Mig.DefaultErrorHandler(err, ctx)                                       *)
(***************************************************************************)
\* One record written through logger: its own attributes, then the call's.
LogEntry(logger, msg, id, code, error, stack) ==
    [code |-> code, msg |-> msg, stack |-> stack, id |-> id, error |-> error,
     attrs |-> logger]

\* The type assertion err.(*HTTPError) of the first generation: only an error that
\* is itself an *HTTPError is structured.
CoerceTypeAssert(err) ==
    IF err # <<>> /\ err[1].kind = "http" THEN err
    ELSE <<HTTPLayer(StatusInternalServerError,
                     StatusText(StatusInternalServerError), "")>> \o err

\* The structured error the handler works with.
Coerce(err) ==
    IF HasHTTPError(err) THEN FirstHTTPError(err)
    ELSE <<HTTPLayer(StatusInternalServerError,
                     StatusText(StatusInternalServerError), "")>> \o err

\* http.Error(w, msg, code)
HTTPError(e, msg, code) ==
    LET e1 == HeaderSet(e, "Content-Type", "text/plain; charset=utf-8")
        e2 == RespWriteHeader(e1, code)
    IN  RespWrite(e2, Chunk("text", 0, msg), 1)

\* The environment after the handler's one log entry for the structured error he.
EHLogged(e, he) ==
    [e EXCEPT !.lg = Append(@,
        IF he[1].Stack # ""
        THEN LogEntry(e.ml, "panic recovered", CtxRequestID(e.c), 0, Internal(he), he[1].Stack)
        ELSE LogEntry(e.ml, "request error", CtxRequestID(e.c), he[1].Code, Internal(he), ""))]

\* A handler without the Written() guard: it writes its response whatever was
\* written before.
DefaultErrorHandlerNoGuard(e, err) ==
    LET he == Coerce(err)
        h  == he[1]
        e0 == EHLogged(e, he)
    IN  IF h.Code = StatusNoContent \/ h.Code = StatusNotModified
        THEN RespWriteHeader(e0, h.Code)
        ELSE IF e0.c.Request.accept
             THEN LET e1 == HeaderSet(e0, "Content-Type", "application/json; charset=utf-8")
                      e2 == RespWriteHeader(e1, h.Code)
                  IN  RespWrite(e2, Chunk("json", h.Code, h.Message), 1)
        ELSE HTTPError(e0, h.Message, h.Code)

\* HTTPError.Error(): the text of the internal cause when there is one, else Message.
RECURSIVE ErrorText(_)
ErrorText(err) ==
    IF err = <<>> THEN ""
    ELSE IF err[1].kind = "http" /\ Len(err) > 1 THEN ErrorText(Tail(err))
    ELSE err[1].Message

\* A handler that answers with e.Error() in place of e.Message.
DefaultErrorHandlerLeaky(e, err) ==
    LET he == Coerce(err)
        h  == he[1]
        e0 == EHLogged(e, he)
    IN  IF RespWritten(e0.c) > 0 THEN e0
        ELSE IF h.Code = StatusNoContent \/ h.Code = StatusNotModified
             THEN RespWriteHeader(e0, h.Code)
        ELSE IF e0.c.Request.accept
             THEN LET e1 == HeaderSet(e0, "Content-Type", "application/json; charset=utf-8")
                      e2 == RespWriteHeader(e1, h.Code)
                  IN  RespWrite(e2, Chunk("json", h.Code, ErrorText(he)), 1)
        ELSE HTTPError(e0, ErrorText(he), h.Code)

\* A handler that looks at the Accept header before the body-less codes.
DefaultErrorHandlerJSONFirst(e, err) ==
    LET he == Coerce(err)
        h  == he[1]
        e0 == EHLogged(e, he)
    IN  IF RespWritten(e0.c) > 0 THEN e0
        ELSE IF e0.c.Request.accept
             THEN LET e1 == HeaderSet(e0, "Content-Type", "application/json; charset=utf-8")
                      e2 == RespWriteHeader(e1, h.Code)
                  IN  RespWrite(e2, Chunk("json", h.Code, h.Message), 1)
        ELSE IF h.Code = StatusNoContent \/ h.Code = StatusNotModified
             THEN RespWriteHeader(e0, h.Code)
        ELSE HTTPError(e0, h.Message, h.Code)

\* The error handler of the first generation: it writes with http.Error whatever
\* was written before, and logs the error text alone.
DefaultErrorHandlerV1(e, err) ==
    LET he == Coerce(err)
        e0 == HTTPError(e, he[1].Message, he[1].Code)
    IN  [e0 EXCEPT !.lg = Append(@, LogEntry(e.ml, he[Len(he)].Message, "", 0,
                                            NoError, ""))]

DefaultErrorHandler(e, err) ==
    LET he == Coerce(err)
        h  == he[1]
        entry == IF h.Stack # ""
                 THEN LogEntry(e.ml, "panic recovered", CtxRequestID(e.c), 0, Internal(he), h.Stack)
                 ELSE LogEntry(e.ml, "request error", CtxRequestID(e.c), h.Code, Internal(he), "")
        e0 == [e EXCEPT !.lg = Append(@, entry)]
    IN  IF RespWritten(e0.c) > 0 THEN e0
        ELSE IF h.Code = StatusNoContent \/ h.Code = StatusNotModified
             THEN RespWriteHeader(e0, h.Code)
        ELSE IF e0.c.Request.accept
             THEN LET e1 == HeaderSet(e0, "Content-Type", "application/json; charset=utf-8")
                      e2 == RespWriteHeader(e1, h.Code)
                  IN  RespWrite(e2, Chunk("json", h.Code, h.Message), 1)
        ELSE HTTPError(e0, h.Message, h.Code)

(***************************************************************************)
(* Mig.Execute, one goroutine t per request in flight.                     *)
(*   idle/done --Acquire--> chain --(Context operations)-->                *)
(*   chain --return nil--> put,  chain --return err--> eh,                 *)
(*   chain --panic--> eh | put,  eh --error handler--> put | eh,           *)
(*   put --deferred pool.Put--> done                                       *)
(***************************************************************************)
InFlight(t) == exec[t].pc \in {"chain", "eh", "put"}

\* The environment of goroutine t's Context: the sink is the one its Response
\* is bound to.
BoundSinks(c) == {u \in Threads : sink[u].n = ctx[c].rw}

EnvOf(t) ==
    LET c == exec[t].cont
    IN  [c  |-> ctx[c],
         s  |-> IF BoundSinks(c) = {} THEN NewSink(0)
                ELSE sink[CHOOSE u \in BoundSinks(c) : TRUE],
         ml |-> MigLogger,
         lg |-> log[t],
         r  |-> 0]

Commit(t, e) ==
    /\ ctx' = [ctx EXCEPT ![exec[t].cont] = e.c]
    /\ sink' = [u \in Threads |->
                  IF u \in BoundSinks(exec[t].cont) THEN e.s ELSE sink[u]]
    /\ MigLogger' = e.ml
    /\ log' = [log EXCEPT ![t] = e.lg]

\* sync.Pool.Get keeping the Context it hands out in the pool.
PoolAfterGetKeep(p, c) == p

\* sync.Pool.Get: the Context handed out leaves the pool.
PoolAfterGet(p, c) == p \ {c}

\* sync.Pool.Put
PoolAfterPut(p, c) == p \cup {c}

\* Execute(handler, rw, r) is entered with request r: cont := m.pool.Get();
\* cont.Reset(r, rw); the two defers are installed.
ExecuteBegin(t, c, r) ==
    /\ exec[t].pc \in {"idle", "done"}
    /\ served < MaxServed
    /\ r.n = served + 1
    /\ \/ c \in pool
       \/ /\ ~ctx[c].made
          /\ \A d \in Ctxs : d < c => ctx[d].made
    /\ LET n == r.n
           old == IF ctx[c].made THEN ctx[c] ELSE PoolNew(MigLogger)
       IN  /\ served' = n
           /\ pool' = PoolAfterGet(pool, c)
           /\ ctx' = [ctx EXCEPT ![c] = CtxReset(old, r, n, MigLogger)]
           /\ req' = [req EXCEPT ![t] = r]
           /\ sink' = [sink EXCEPT ![t] = NewSink(n)]
           /\ exec' = [exec EXCEPT ![t] =
                         [IdleExec EXCEPT !.pc = "chain", !.cont = c,
                                          !.stale = UsedBefore(ctx[c], MigLogger)]]
    /\ log' = [log EXCEPT ![t] = <<>>]
    /\ ehLog' = [ehLog EXCEPT ![t] = <<>>]
    /\ UNCHANGED <<MigLogger, ErrorHandler, groupVars, srv>>

\* Execute entered with a request that carries no Authorization header and no body.
Acquire(t, c, rid, accept, q) ==
    ExecuteBegin(t, c, NewRequest(served + 1, rid, accept, q))

\* What one Context operation of the handler chain leaves unchanged.
OpFrame(t) ==
    /\ exec[t].pc = "chain"
    /\ exec[t].ops < MaxOps
    /\ exec' = [exec EXCEPT ![t].ops = @ + 1]
    /\ UNCHANGED <<ErrorHandler, pool, served, req, ehLog, groupVars, srv>>

\* The handler chain calls c.Response.WriteHeader(code).
HWriteHeader(t, code) ==
    /\ OpFrame(t)
    /\ Commit(t, RespWriteHeader(EnvOf(t), code))

\* The handler chain calls c.Response.Write (c.Raw); the sink takes n bytes.
HWrite(t, n) ==
    /\ OpFrame(t)
    /\ Commit(t, RespWrite(EnvOf(t), Chunk("raw", 0, "data"), n))

\* The handler chain calls c.QueryParam or c.HasQueryParam.
HQueryParam(t) ==
    /\ OpFrame(t)
    /\ Commit(t, [EnvOf(t) EXCEPT !.c = CtxLoadQuery(@)])

\* The handler chain calls c.Put(name, value).
HPut(t, name, value) ==
    /\ exec[t].pc = "chain"
    /\ exec[t].ops < MaxOps
    /\ exec' = [exec EXCEPT ![t].ops = @ + 1,
                            ![t].kv = (name :> value) @@ @]
    /\ Commit(t, [EnvOf(t) EXCEPT !.c = CtxPut(@, name, value)])
    /\ UNCHANGED <<ErrorHandler, pool, served, req, ehLog, groupVars, srv>>

\* The handler chain calls c.SetRequestID(id).
HSetRequestID(t, id) ==
    /\ exec[t].pc = "chain"
    /\ exec[t].ops < MaxOps
    /\ exec' = [exec EXCEPT ![t].ops = @ + 1,
                            ![t].lastId = IF id # "" THEN id ELSE @]
    /\ Commit(t, CtxSetRequestID(EnvOf(t), id))
    /\ UNCHANGED <<ErrorHandler, pool, served, req, ehLog, groupVars, srv>>

\* middleware.RequestID: the incoming header, else a generated id (gen is ""
\* when reading the random source failed), then SetRequestID.
MwRequestID(t, gen) ==
    /\ exec[t].pc = "chain"
    /\ ~exec[t].rid
    /\ LET id == IF ctx[exec[t].cont].Request.rid # ""
                 THEN ctx[exec[t].cont].Request.rid ELSE gen
       IN  /\ exec' = [exec EXCEPT ![t].rid = TRUE,
                                   ![t].lastId = IF id # "" THEN id ELSE @]
           /\ Commit(t, CtxSetRequestID(EnvOf(t), id))
    /\ UNCHANGED <<ErrorHandler, pool, served, req, ehLog, groupVars, srv>>

\* The chain returns nil: Execute returns, the deferred recover sees nothing.
ChainReturnNil(t) ==
    /\ exec[t].pc = "chain"
    /\ exec' = [exec EXCEPT ![t].pc = "put"]
    /\ UNCHANGED <<MigLogger, ErrorHandler, pool, ctx, served, req, sink, log, ehLog,
                   groupVars, srv>>

\* The chain returns a non-nil error: Execute is about to call m.ErrorHandler.
ChainReturnErr(t, err) ==
    /\ exec[t].pc = "chain"
    /\ exec' = [exec EXCEPT ![t].pc = "eh", ![t].path = "error", ![t].arg = err,
                            ![t].ret = err]
    /\ UNCHANGED <<MigLogger, ErrorHandler, pool, ctx, served, req, sink, log, ehLog,
                   groupVars, srv>>

\* rec.(error), else fmt.Errorf("%v", rec)
RecoveredError(v) == IF v.isErr THEN v.err ELSE <<PlainLayer(v.str)>>

\* debug.Stack(): some non-empty text.
DebugStack == "goroutine [running]: runtime/debug.Stack()"

\* NewHTTPError(500) with Internal = err and Stack = debug.Stack()
PanicHTTPError(err) ==
    <<HTTPLayer(StatusInternalServerError, StatusText(StatusInternalServerError),
                DebugStack)>> \o err

\* A recovery that hands every panic, the abort sentinel too, to the error handler.
AfterRecoverNoAbort(x, v) ==
    [x EXCEPT !.pc = "eh", !.path = "recover", !.arg = PanicHTTPError(RecoveredError(v))]

\* A recovery that builds the error without a stack.
AfterRecoverNoStack(x, v) ==
    LET err == RecoveredError(v)
    IN  IF IsAbort(err)
        THEN [x EXCEPT !.pc = "put", !.esc = PanicError(err)]
        ELSE [x EXCEPT !.pc = "eh", !.path = "recover",
                       !.arg = NewHTTPError(StatusInternalServerError) \o err]

\* A recovery that swallows the panic: it calls no error handler.
AfterRecoverSilent(x, v) ==
    LET err == RecoveredError(v)
    IN  IF IsAbort(err)
        THEN [x EXCEPT !.pc = "put", !.esc = PanicError(err)]
        ELSE [x EXCEPT !.pc = "put", !.path = "recover"]

\* The deferred recover of Execute, entered with the panic value v: where the
\* Execute call x goes next.
AfterRecover(x, v) ==
    LET err == RecoveredError(v)
    IN  IF IsAbort(err)
        THEN [x EXCEPT !.pc = "put", !.esc = PanicError(err)]
        ELSE [x EXCEPT !.pc = "eh", !.path = "recover", !.arg = PanicHTTPError(err)]

\* The chain panics with v.
ChainPanic(t, v) ==
    /\ exec[t].pc = "chain"
    /\ exec' = [exec EXCEPT ![t] =
                  AfterRecover([@ EXCEPT !.pv = v, !.pst = ctx[exec[t].cont].status], v)]
    /\ UNCHANGED <<MigLogger, ErrorHandler, pool, ctx, served, req, sink, log, ehLog,
                   groupVars, srv>>

(***************************************************************************)
(* Handlers and middleware as the chain of one request.  A handler is a    *)
(* function of the environment it is called in; its outcome is the         *)
(* environment it leaves, the error it returns (ret) or the value it       *)
(* panics with (pv), and whether and how it called the downstream handler. *)
(***************************************************************************)
Outcome(e, ret, pv, down) == [ret |-> ret, pv |-> pv, down |-> down, e |-> e]

\* next(c): the downstream handler runs in e.
CallNext(e, next) ==
    Outcome(IF next.w THEN RespWrite(e, Chunk("raw", 0, "data"), 1) ELSE e,
            next.ret, next.pv, Called(next))

\* Downstream handlers that return: one that writes its page, one that returns an
\* error and one that fails after it wrote.
ReturningHandlers ==
    { NextDoes(TRUE, NoError, NoPanic),
      NextDoes(FALSE, ErrNotFound, NoPanic),
      NextDoes(TRUE, <<PlainLayer("db down")>>, NoPanic) }

\* Where Execute goes once the chain ended with outcome o: as after a return of
\* nil, a return of an error, or a panic.
AfterChain(x, o) ==
    IF o.pv.set
    THEN AfterRecover([x EXCEPT !.pv = o.pv, !.pst = o.e.c.status], o.pv)
    ELSE IF o.ret # NoError
         THEN [x EXCEPT !.pc = "eh", !.path = "error", !.arg = o.ret, !.ret = o.ret]
    ELSE [x EXCEPT !.pc = "put"]

\* err := handler(cont) for a chain that is the handler op given the input in,
\* and that ends with outcome o.
RunHandler(t, op, in, o) ==
    /\ exec[t].pc = "chain"
    /\ exec[t].op = ""
    /\ Commit(t, o.e)
    /\ exec' = [exec EXCEPT ![t] =
                  AfterChain([@ EXCEPT !.op = op, !.in = in, !.down = o.down], o)]
    /\ UNCHANGED <<ErrorHandler, pool, served, req, ehLog, groupVars, srv>>

(***************************************************************************)
(* middleware.BasicAuthWithConfig(cfg)                                     *)
(***************************************************************************)
\* Request.BasicAuth(): the credentials of a Basic Authorization header.
RequestBasicAuth(r) ==
    IF r.auth.scheme = "Basic"
    THEN [u |-> r.auth.u, p |-> r.auth.p, ok |-> TRUE]
    ELSE [u |-> "", p |-> "", ok |-> FALSE]

\* Authorization headers of the requests: none, another scheme, the right
\* credentials, a wrong password, a wrong user.
AuthHeaders ==
    { NoAuth, BearerAuth, BasicCredentials("mig", "secret"),
      BasicCredentials("mig", "wrong"), BasicCredentials("guest", "secret") }

\* cfg.IsAllowed of the application.
IsAllowed(u, p) == u = "mig" /\ p = "secret"

\* cfg.Realm of the application: not configured, or configured.
Realms == { "", "Test Realm" }

\* strconv.Quote, on the realms of the model.
Quote(str) ==
    CASE str = "Test Realm" -> "\"Test Realm\""
      [] str = "restricted" -> "\"restricted\""
      [] OTHER -> "\"\""

\* The realm of the first generation: the default is left without quotes.
BasicAuthRealmV1(cfgRealm) ==
    IF cfgRealm = "" THEN "restricted" ELSE Quote(cfgRealm)

\* The realm as the middleware sends it.
BasicAuthRealm(cfgRealm) ==
    IF cfgRealm = "" THEN "\"restricted\"" ELSE Quote(cfgRealm)

\* "Basic realm=" + realm
Challenge(realm) == <<"Basic realm=", realm>>

\* The handler BasicAuthWithConfig(cfg)(next), called in e.
BasicAuthHandler(e, cfgRealm, next) ==
    LET ba == RequestBasicAuth(e.c.Request)
    IN  IF ba.ok /\ IsAllowed(ba.u, ba.p)
        THEN CallNext(e, next)
        ELSE Outcome(HeaderSet(e, "WWW-Authenticate", Challenge(BasicAuthRealm(cfgRealm))),
                     NewHTTPError(StatusUnauthorized), NoPanic, NotCalled)

\* The chain of the request is BasicAuthWithConfig(cfg)(next).
ChainBasicAuth(t, cfgRealm, next) ==
    RunHandler(t, "BasicAuth", cfgRealm, BasicAuthHandler(EnvOf(t), cfgRealm, next))

(***************************************************************************)
(* The response helpers of the Context: BindJSON, JSON, View, HTML, Raw.   *)
(***************************************************************************)
\* Request bodies: empty, one value that fits the target, a value with broken
\* syntax, a value with a field the target lacks, a value of the wrong type, and a
\* fitting value followed by text that is not JSON.
Bodies ==
    { NoBody, <<"user">>, <<"syntax">>, <<"unknown">>, <<"mismatch">>,
      <<"user", "syntax">> }

\* A Decode without DisallowUnknownFields: a field the target lacks is skipped.
DecodeAllowUnknown(body) ==
    IF body = <<>> THEN <<PlainLayer("EOF")>>
    ELSE CASE Head(body) \in {"user", "unknown"} -> NoError
           [] Head(body) = "syntax" -> <<PlainLayer("invalid character")>>
           [] OTHER -> <<PlainLayer("json: cannot unmarshal string into int")>>

\* json.Decoder.Decode with DisallowUnknownFields: it reads the next value of the
\* body and no further; the error it returns, nil when the value was stored.
Decode(body) ==
    IF body = <<>> THEN <<PlainLayer("EOF")>>
    ELSE CASE Head(body) = "user" -> NoError
           [] Head(body) = "syntax" -> <<PlainLayer("invalid character")>>
           [] Head(body) = "unknown" -> <<PlainLayer("json: unknown field")>>
           [] OTHER -> <<PlainLayer("json: cannot unmarshal string into int")>>

\* Context.BindJSON(out)
CtxBindJSON(e) ==
    LET err == Decode(e.c.Request.Body)
    IN  IF err # NoError
        THEN Outcome(e, NewHTTPError(StatusBadRequest) \o err, NoPanic, NotCalled)
        ELSE Outcome(e, NoError, NoPanic, NotCalled)

\* The error a Write returns when the sink took fewer bytes than it was given.
WriteError == <<PlainLayer("write: broken pipe")>>

\* Context.Raw(data); the sink takes n bytes.
CtxRaw(e, chunk, n) ==
    Outcome(RespWrite(e, chunk, n),
            IF n < LenOf(chunk) THEN WriteError ELSE NoError, NoPanic, NotCalled)

\* A handler that binds the body and answers: the error of BindJSON, else c.Raw.
BindJSONHandler(e, n) ==
    LET b == CtxBindJSON(e)
    IN  IF b.ret # NoError THEN b ELSE CtxRaw(b.e, Chunk("text", 0, "OK: John Doe is 30"), n)

\* Values handed to c.JSON: a struct, and a value json.Marshal refuses (a channel).
JSONValues == { "user", "chan" }

\* json.Marshal(out)
Marshal(out) ==
    IF out = "user" THEN [err |-> NoError, res |-> "{\"name\":\"mig\"}"]
    ELSE [err |-> <<PlainLayer("json: unsupported type: chan int")>>, res |-> ""]

\* A JSON that writes the status before it sets the content type.
CtxJSONStatusFirst(e, out, n) ==
    LET m == Marshal(out)
    IN  IF m.err # NoError THEN Outcome(e, m.err, NoPanic, NotCalled)
        ELSE LET e1 == RespWriteHeader(e, StatusOK)
                 e2 == HeaderSet(e1, "Content-Type", "application/json; charset=utf-8")
             IN  CtxRaw(e2, Chunk("value", 0, m.res), n)

\* Context.JSON(out); the sink takes n bytes.
CtxJSON(e, out, n) ==
    LET m == Marshal(out)
    IN  IF m.err # NoError THEN Outcome(e, m.err, NoPanic, NotCalled)
        ELSE LET e1 == HeaderSet(e, "Content-Type", "application/json; charset=utf-8")
                 e2 == RespWriteHeader(e1, StatusOK)
             IN  CtxRaw(e2, Chunk("value", 0, m.res), n)

\* Templates handed to c.View: one that renders, one that fails halfway through
\* its output, one the renderer does not know.
Templates == { "page", "broken", "missing" }

\* Renderer.Render(buf, name, data): what it wrote to buf and the error it returned.
Render(name) ==
    CASE name = "page" -> [err |-> NoError, buf |-> "<h1>Hello</h1>"]
      [] name = "broken" -> [err |-> <<PlainLayer("template: nil pointer evaluating")>>, buf |-> "<h1>"]
      [] OTHER -> [err |-> <<PlainLayer("template: no template")>>, buf |-> ""]

\* Context.HTML(html); the sink takes n bytes.
CtxHTML(e, html, n) ==
    CtxRaw(HeaderSet(e, "content-type", "text/html; charset=utf-8"),
           Chunk("html", 0, html), n)

\* A View that renders straight into the Response.
CtxViewUnbuffered(e, name, n) ==
    LET r == Render(name)
        o == IF r.buf # "" THEN CtxHTML(e, r.buf, n) ELSE Outcome(e, NoError, NoPanic, NotCalled)
    IN  IF r.err # NoError THEN Outcome(o.e, r.err, NoPanic, NotCalled) ELSE o

\* Context.View(name, data); the sink takes n bytes.
CtxView(e, name, n) ==
    LET r == Render(name)
    IN  IF r.err # NoError THEN Outcome(e, r.err, NoPanic, NotCalled)
        ELSE CtxHTML(e, r.buf, n)

\* Context.String(code, s); the sink takes n bytes.
CtxString(e, code, str, n) ==
    LET e1 == HeaderSet(e, "Content-Type", "text/plain; charset=utf-8")
        e2 == RespWriteHeader(e1, code)
    IN  CtxRaw(e2, Chunk("text", 0, str), n)

\* Context.NoContent(code)
CtxNoContent(e, code) == Outcome(RespWriteHeader(e, code), NoError, NoPanic, NotCalled)

\* The Location http.Redirect sets: a path relative to the request's (/redirect
\* here) is made absolute.
ResolveLocation(url) == IF url = "next" THEN "/next" ELSE url

\* Context.Redirect(code, url), which is http.Redirect(c.Response, c.Request,
\* url, code): the Location, for GET and HEAD without a content type the HTML
\* content type, the status, and for GET the short HTML body; the sink takes n
\* bytes of it.  Redirect returns nil whatever the write did.
CtxRedirect(e, code, url, n) ==
    LET hadCT  == "Content-Type" \in DOMAIN e.s.hdr
        method == e.c.Request.Method
        e1 == HeaderSet(e, "Location", ResolveLocation(url))
        e2 == IF ~hadCT /\ method \in {"GET", "HEAD"}
              THEN HeaderSet(e1, "Content-Type", "text/html; charset=utf-8") ELSE e1
        e3 == RespWriteHeader(e2, code)
        e4 == IF ~hadCT /\ method = "GET"
              THEN RespWrite(e3, Chunk("html", code, StatusText(code)), n) ELSE e3
    IN  Outcome(e4, NoError, NoPanic, NotCalled)

\* The handler calls one response helper and goes on, whatever the helper returned.
HHelper(t, o) ==
    /\ OpFrame(t)
    /\ Commit(t, o.e)

HRaw(t, n) == HHelper(t, CtxRaw(EnvOf(t), Chunk("raw", 0, "data"), n))

HString(t, n) == HHelper(t, CtxString(EnvOf(t), StatusOK, "hello", n))

HJSON(t, out, n) == HHelper(t, CtxJSON(EnvOf(t), out, n))

HHTML(t, n) == HHelper(t, CtxHTML(EnvOf(t), "<h1>Hello</h1>", n))

HNoContent(t) == HHelper(t, CtxNoContent(EnvOf(t), StatusNoContent))

HRedirect(t, n) == HHelper(t, CtxRedirect(EnvOf(t), StatusFound, "/new-path", n))

\* The chain of the request is a handler that calls BindJSON, JSON or View.
ChainBindJSON(t, n) == RunHandler(t, "BindJSON", "", BindJSONHandler(EnvOf(t), n))

ChainJSON(t, out, n) == RunHandler(t, "JSON", out, CtxJSON(EnvOf(t), out, n))

ChainView(t, name, n) == RunHandler(t, "View", name, CtxView(EnvOf(t), name, n))

(***************************************************************************)
(* middleware.RequestLogger()                                              *)
(***************************************************************************)
\* The entry c.Logger.Info("request", ...) writes: the status and the byte
\* count of the Response at that moment, through the logger of the Context.
RequestEntry(c) ==
    ("status" :> RespStatus(c)) @@ ("bytes" :> RespWritten(c))
        @@ LogEntry(c.Logger, "request", "", 0, NoError, "")

\* Downstream handlers under the logger: those that return, and those that panic.
LoggedHandlers ==
    ReturningHandlers \cup
    { NextDoes(FALSE, NoError, NoPanic),
      NextDoes(FALSE, NoError, PanicString("oh no, a panic!")),
      NextDoes(TRUE, NoError, PanicError(ErrAbortHandler)) }

\* The RequestLogger of the first generation: it logs after next returned, so
\* not when next panicked.
RequestLoggerHandlerV1(e, next) ==
    LET o == CallNext(e, next)
    IN  IF o.pv.set THEN o
        ELSE [o EXCEPT !.e.lg = Append(@, RequestEntry(o.e.c))]

\* The handler RequestLogger()(next), called in e: the deferred function logs
\* when next has returned and when it has panicked.
RequestLoggerHandler(e, next) ==
    LET o == CallNext(e, next)
    IN  [o EXCEPT !.e.lg = Append(@, RequestEntry(o.e.c))]

\* The chain of the request is RequestLogger()(next).
ChainRequestLogger(t, next) ==
    RunHandler(t, "RequestLogger", "", RequestLoggerHandler(EnvOf(t), next))

\* An engine that calls the handler installed by New, whatever the application
\* assigned to m.ErrorHandler since.
ErrorHandlerAtNew == "default"

\* m.ErrorHandler as Execute reads it when it makes the call.
CurrentErrorHandler == ErrorHandler

\* One call m.ErrorHandler(err, cont), as Execute made it; ret: it returned.
EHCall(t, ret) ==
    [err |-> exec[t].arg, ret |-> ret, cont |-> exec[t].cont,
     path |-> exec[t].path, h |-> CurrentErrorHandler]

\* m.ErrorHandler is DefaultErrorHandler; it returns.
EHDefault(t) ==
    /\ exec[t].pc = "eh"
    /\ CurrentErrorHandler = "default"
    /\ Commit(t, DefaultErrorHandler(EnvOf(t), exec[t].arg))
    /\ ehLog' = [ehLog EXCEPT ![t] = Append(@, EHCall(t, TRUE))]
    /\ exec' = [exec EXCEPT ![t].pc = "put"]
    /\ UNCHANGED <<ErrorHandler, pool, served, req, groupVars, srv>>

\* m.ErrorHandler is an application's handler, and it returns.
EHCustomReturn(t) ==
    /\ exec[t].pc = "eh"
    /\ CurrentErrorHandler = "custom"
    /\ ehLog' = [ehLog EXCEPT ![t] = Append(@, EHCall(t, TRUE))]
    /\ exec' = [exec EXCEPT ![t].pc = "put"]
    /\ UNCHANGED <<MigLogger, ErrorHandler, pool, ctx, served, req, sink, log, groupVars, srv>>

\* m.ErrorHandler is an application's handler, and it panics with v: called from
\* the body of Execute the deferred recover catches it; called from the deferred
\* recover itself the panic leaves Execute.
EHCustomPanic(t, v) ==
    /\ exec[t].pc = "eh"
    /\ CurrentErrorHandler = "custom"
    /\ ehLog' = [ehLog EXCEPT ![t] = Append(@, EHCall(t, FALSE))]
    /\ exec' = [exec EXCEPT ![t] =
                  IF @.path = "error" THEN AfterRecover(@, v)
                  ELSE [@ EXCEPT !.pc = "put", !.esc = v]]
    /\ UNCHANGED <<MigLogger, ErrorHandler, pool, ctx, served, req, sink, log, groupVars, srv>>

\* m.pool.Put(cont) as the last statement of Execute: skipped when Execute is
\* left through a panic or through the recovery.
SequentialPut(t) ==
    IF exec[t].esc.set \/ exec[t].path = "recover"
    THEN /\ pool' = pool
         /\ exec' = [exec EXCEPT ![t].pc = "done"]
    ELSE /\ pool' = PoolAfterPut(pool, exec[t].cont)
         /\ exec' = [exec EXCEPT ![t].pc = "done", ![t].puts = @ + 1]

\* defer m.pool.Put(cont): runs last, however Execute is left.
DeferredPut(t) ==
    /\ pool' = PoolAfterPut(pool, exec[t].cont)
    /\ exec' = [exec EXCEPT ![t].pc = "done", ![t].puts = @ + 1]

\* The deferred Put made before the recovery guard has had the panic handled.
PutBeforeRecovery(x) == x.pc = "put" \/ (x.pc = "eh" /\ x.path = "recover")

\* Deferred calls run last-in first-out: m.pool.Put(cont), deferred first, runs
\* when the body of Execute and the recovery guard deferred after it are done.
PutIsDue(x) == x.pc = "put"

\* Execute is left: the Context goes back to the pool.
Release(t) ==
    /\ PutIsDue(exec[t])
    /\ DeferredPut(t)
    /\ UNCHANGED <<MigLogger, ErrorHandler, ctx, served, req, sink, log, ehLog, groupVars, srv>>

\* The application assigns m.ErrorHandler (while no request is in flight).
SetErrorHandler(h) ==
    /\ \A t \in Threads : ~InFlight(t)
    /\ h # ErrorHandler
    /\ ErrorHandler' = h
    /\ UNCHANGED <<MigLogger, pool, ctx, served, exec, req, sink, log, ehLog, groupVars, srv>>

(***************************************************************************)
(* Route groups.  A RouteGroup: Prefix (the path pieces concatenated so    *)
(* far), middlewares, ParentRouter (0 for the root).  A middleware value   *)
(* is a number, given out in the order the values are registered.  Beside  *)
(* the fields of the code a group records what the claims speak about: own *)
(* (the middleware added to this group, by Group or by Use) and inh (how   *)
(* many middleware its parent had when the group was created).             *)
(***************************************************************************)
RootGroup ==
    [Prefix |-> <<>>, middlewares |-> <<>>, ParentRouter |-> 0, own |-> <<>>, inh |-> 0]

\* The next k middleware values.
NewMiddlewares(k) == [j \in 1..k |-> nextMw + j - 1]

\* A Group that starts the child from an empty list (the first generation, whose
\* groups held only their own middleware).
InheritNothing(parent) == <<>>

\* append([]MiddlewareFunc{}, rg.middlewares...): the child's copy of the list.
InheritedMiddlewares(parent) == parent.middlewares

\* Group(prefix, middlewares...) on group p
Group(p, prefix, k) ==
    /\ p \in DOMAIN groups
    /\ Len(groups) < MaxGroups
    /\ nextMw + k - 1 <= MaxMw
    /\ LET mws == NewMiddlewares(k)
           g == [Prefix |-> groups[p].Prefix \o <<prefix>>,
                 middlewares |-> InheritedMiddlewares(groups[p]) \o mws,
                 ParentRouter |-> p,
                 own |-> mws,
                 inh |-> Len(groups[p].middlewares)]
       IN  /\ groups' = Append(groups, g)
           /\ nextMw' = nextMw + k
    /\ UNCHANGED <<routes, trace, engineVars, srv>>

\* A Use that registers on the root group whatever group it is called on.
UseOnRoot(g) == 1

\* The group whose list Use extends: the receiver.
UseReceiver(g) == g

\* Use(middlewares...) on group g
Use(g, k) ==
    /\ g \in DOMAIN groups
    /\ nextMw + k - 1 <= MaxMw
    /\ LET mws == NewMiddlewares(k)
           r == UseReceiver(g)
           g1 == [groups EXCEPT ![r].middlewares = @ \o mws]
       IN  /\ groups' = [g1 EXCEPT ![g].own = @ \o mws]
           /\ nextMw' = nextMw + k
    /\ UNCHANGED <<routes, trace, engineVars, srv>>

\* m(next): the handler next wrapped in middleware m; a composed handler is the
\* middleware from the outermost inwards, then the handler.
Wrap(m, next) == <<m>> \o next

\* The loop of HandleRaw run from the first middleware to the last.
RECURSIVE ComposeAscending(_, _, _)
ComposeAscending(mws, i, fhandler) ==
    IF i < 1 THEN fhandler
    ELSE ComposeAscending(mws, i - 1, Wrap(mws[Len(mws) - i + 1], fhandler))

\* for i := len(rg.middlewares) - 1; i >= 0; i-- { fhandler = rg.middlewares[i](fhandler) }
RECURSIVE Compose(_, _, _)
Compose(mws, i, fhandler) ==
    IF i < 1 THEN fhandler
    ELSE Compose(mws, i - 1, Wrap(mws[i], fhandler))

\* HandleRaw(pattern, handler) on group g; the mux refuses a pattern registered
\* before.  Beside the composed handler a route records the group that registered
\* it and that group's middleware at that moment.
Register(g, pattern, handler) ==
    /\ g \in DOMAIN groups
    /\ Len(routes) < MaxRoutes
    /\ \A i \in 1..Len(routes) : routes[i].pattern # pattern
    /\ routes' = Append(routes,
                        [pattern |-> pattern,
                         fhandler |-> Compose(groups[g].middlewares,
                                              Len(groups[g].middlewares), <<handler>>),
                         group |-> g,
                         registered |-> groups[g].middlewares])
    /\ UNCHANGED <<groups, nextMw, trace, engineVars, srv>>

HandleRaw(g, pattern, handler) == Register(g, pattern, handler)

\* The Handle of the first generation, whose groups had no prefix: the pattern is
\* the method and the path alone.
HandleNoPrefix(g, method, path, handler) ==
    Register(g, IF method # "" THEN <<method, " ", path>> ELSE <<path>>, handler)

\* Handle(method, path, handler) on group g
Handle(g, method, path, handler) ==
    LET fullPath == groups[g].Prefix \o <<path>>
        pattern == IF method # "" THEN <<method, " ">> \o fullPath ELSE fullPath
    IN  Register(g, pattern, handler)

\* What running a composed handler emits: every middleware marks the request before
\* it calls downstream and after downstream has returned.
Event(kind, id) == [id |-> id, ev |-> kind]

RECURSIVE RunChain(_)
RunChain(fhandler) ==
    IF Len(fhandler) = 1 THEN <<Event("handler", Head(fhandler))>>
    ELSE <<Event("before", Head(fhandler))>> \o RunChain(Tail(fhandler))
             \o <<Event("after", Head(fhandler))>>

NoTrace == [route |-> 0, events |-> <<>>]

\* A handler recomposed from the group's middleware at each request.
RouteHandlerLazy(i) ==
    LET mws == groups[routes[i].group].middlewares
    IN  Compose(mws, Len(mws), <<routes[i].fhandler[Len(routes[i].fhandler)]>>)

\* The handler the mux closure of route i calls: the fhandler it captured.
RouteHandler(i) == routes[i].fhandler

\* The mux dispatches a request to route i: rg.Mig.Execute(fhandler, rw, r).
Dispatch(i) ==
    /\ i \in 1..Len(routes)
    /\ trace' = [route |-> i, events |-> RunChain(RouteHandler(i))]
    /\ UNCHANGED <<groups, routes, nextMw, engineVars, srv>>

(***************************************************************************)
(* Start, Run and Shutdown.  The requests in flight are the Execute calls  *)
(* of the goroutines of the transport.                                     *)
(***************************************************************************)
RequestsInFlight == Cardinality({t \in Threads : InFlight(t)})

\* What the actions of the server leave unchanged.
ServerFrame ==
    UNCHANGED <<MigLogger, ErrorHandler, pool, ctx, served, exec, req, sink, log, ehLog,
                groups, routes, nextMw, trace>>

\* Run(addr): m.Start(addr) listens and serves; Run then waits on ctx.Done().
Start ==
    /\ srv.pc = "new"
    /\ srv' = [srv EXCEPT !.pc = "serving"]
    /\ ServerFrame

\* The mux hands a request to Execute while the server is listening.
Serve(t, c) ==
    /\ srv.pc = "serving"
    /\ Acquire(t, c, "", FALSE, <<>>)

\* os.Interrupt or SIGTERM is delivered to the process.
Signal ==
    /\ srv.pc = "serving"
    /\ ~srv.sig
    /\ srv' = [srv EXCEPT !.sig = TRUE]
    /\ ServerFrame

\* The application cancels the context it gave to New.
CancelContext ==
    /\ srv.pc \in {"serving", "shutdown"}
    /\ ~srv.ctxDone
    /\ srv' = [srv EXCEPT !.ctxDone = TRUE]
    /\ ServerFrame

\* <-ctx.Done() of Run for ctx := signal.NotifyContext(m.ctx, ...): done on a
\* signal and when m.ctx is done.  Run then calls m.Shutdown(), which enters
\* m.http.Shutdown(shutdownCtx): the listener is closed.
ShutdownBegin ==
    /\ srv.pc = "serving"
    /\ srv.sig \/ srv.ctxDone
    /\ srv' = [srv EXCEPT !.pc = "shutdown"]
    /\ ServerFrame

\* ShutdownTimeout passes while m.http.Shutdown waits.
TimeoutElapses ==
    /\ srv.pc = "shutdown"
    /\ ~srv.elapsed
    /\ srv' = [srv EXCEPT !.elapsed = TRUE]
    /\ ServerFrame

\* shutdownCtx := context.WithTimeout(m.ctx, m.ShutdownTimeout) is done when the
\* timeout has passed and when m.ctx is done.
ShutdownCtxDone == srv.elapsed \/ srv.ctxDone

\* m.http.Shutdown(shutdownCtx) returns: nil once no request is in flight, the
\* error of shutdownCtx when that is done while requests are still in flight.
ShutdownReturn ==
    /\ srv.pc = "shutdown"
    /\ RequestsInFlight = 0 \/ ShutdownCtxDone
    /\ srv' = [srv EXCEPT !.pc = "stopped",
                          !.err = RequestsInFlight > 0,
                          !.left = RequestsInFlight]
    /\ ServerFrame

(***************************************************************************)
(* The state after New(ctx).                                               *)
(***************************************************************************)
Init ==
    /\ MigLogger = BaseLogger
    /\ ErrorHandler = "default"
    /\ pool = {}
    /\ ctx = [c \in Ctxs |-> Unmade]
    /\ served = 0
    /\ exec = [t \in Threads |-> IdleExec]
    /\ req = [t \in Threads |-> NoRequest]
    /\ sink = [t \in Threads |-> NewSink(0)]
    /\ log = [t \in Threads |-> <<>>]
    /\ ehLog = [t \in Threads |-> <<>>]
    /\ groups = <<RootGroup>>
    /\ routes = <<>>
    /\ nextMw = 1
    /\ trace = NoTrace
    /\ srv = NewServer

\* The goroutine and the Context of the sequential engine.
SeqThreads == {1}

SeqCtxs == {1}

\* Requests the transport hands to Execute.
Accepts == BOOLEAN

\* The sink takes one byte of each Write here; short and failed writes are the
\* matter of SpecResp.
Next ==
    \/ \E t \in SeqThreads, c \in SeqCtxs, rid \in IncomingIDs, accept \in Accepts,
          q \in QueryStrings : Acquire(t, c, rid, accept, q)
    \/ \E t \in SeqThreads : HWriteHeader(t, StatusNoContent)
    \/ \E t \in SeqThreads : HWrite(t, 1)
    \/ \E t \in SeqThreads : HQueryParam(t)
    \/ \E t \in SeqThreads : HPut(t, "k", "v")
    \/ \E t \in SeqThreads, id \in {"", "abc"} : HSetRequestID(t, id)
    \/ \E t \in SeqThreads, gen \in {"", "4f1a"} : MwRequestID(t, gen)
    \/ \E t \in SeqThreads : ChainReturnNil(t)
    \/ \E t \in SeqThreads, err \in ReturnedErrors : ChainReturnErr(t, err)
    \/ \E t \in SeqThreads, v \in PanicValues : ChainPanic(t, v)
    \/ \E t \in SeqThreads : EHDefault(t)
    \/ \E t \in SeqThreads : EHCustomReturn(t)
    \/ \E t \in SeqThreads, v \in HandlerPanics : EHCustomPanic(t, v)
    \/ \E t \in SeqThreads : Release(t)
    \/ \E h \in {"default", "custom"} : SetErrorHandler(h)

Spec == Init /\ [][Next]_vars

\* Concurrent requests under the default error handler; the Context operations
\* of the chains are left to Spec.
NextConc ==
    \/ \E t \in Threads, c \in Ctxs : Acquire(t, c, "", FALSE, <<>>)
    \/ \E t \in Threads : ChainReturnNil(t)
    \/ \E t \in Threads : ChainReturnErr(t, ErrNotFound)
    \/ \E t \in Threads, v \in HandlerPanics : ChainPanic(t, v)
    \/ \E t \in Threads : EHDefault(t)
    \/ \E t \in Threads : Release(t)

SpecConc == Init /\ [][NextConc]_vars

\* The Response wrapper and the default error handler: what the chain writes,
\* what the sink takes, and the errors and panics the handler is given.
NextResp ==
    \/ \E t \in SeqThreads, c \in SeqCtxs, accept \in Accepts :
          Acquire(t, c, "", accept, <<>>)
    \/ \E t \in SeqThreads, code \in {StatusNoContent, StatusNotFound} :
          HWriteHeader(t, code)
    \/ \E t \in SeqThreads, n \in 0..MaxWrite : HWrite(t, n)
    \/ \E t \in SeqThreads : ChainReturnNil(t)
    \/ \E t \in SeqThreads, err \in HandledErrors : ChainReturnErr(t, err)
    \/ \E t \in SeqThreads : ChainPanic(t, PanicString("oh no, a panic!"))
    \/ \E t \in SeqThreads : EHDefault(t)
    \/ \E t \in SeqThreads : Release(t)

SpecResp == Init /\ [][NextResp]_vars

\* The request-scoped state of the Context: the query cache, the values stored
\* with Put and the request id, over requests reusing the pooled Context.
NextCtx ==
    \/ \E t \in SeqThreads, c \in SeqCtxs, q \in QueryCases :
          Acquire(t, c, "", FALSE, q)
    \/ \E t \in SeqThreads : HQueryParam(t)
    \/ \E t \in SeqThreads, name \in {"k", "j"}, value \in {"v", "w"} :
          HPut(t, name, value)
    \/ \E t \in SeqThreads, id \in {"", "abc", "xyz"} : HSetRequestID(t, id)
    \/ \E t \in SeqThreads : ChainReturnNil(t)
    \/ \E t \in SeqThreads : Release(t)

SpecCtx == Init /\ [][NextCtx]_vars

\* A route protected by BasicAuth, under the default error handler.
NextAuth ==
    \/ \E t \in SeqThreads, c \in SeqCtxs, accept \in Accepts, h \in AuthHeaders :
          ExecuteBegin(t, c, [NewRequest(served + 1, "", accept, <<>>) EXCEPT !.auth = h])
    \/ \E t \in SeqThreads, cfgRealm \in Realms, next \in ReturningHandlers :
          ChainBasicAuth(t, cfgRealm, next)
    \/ \E t \in SeqThreads : EHDefault(t)
    \/ \E t \in SeqThreads : Release(t)

SpecAuth == Init /\ [][NextAuth]_vars

\* Handlers that bind the body or answer with JSON or a view, after a status a
\* middleware may have written, under the default error handler.
NextHelpers ==
    \/ \E t \in SeqThreads, c \in SeqCtxs, body \in Bodies :
          ExecuteBegin(t, c, [NewRequest(served + 1, "", FALSE, <<>>) EXCEPT !.Body = body])
    \/ \E t \in SeqThreads : HWriteHeader(t, StatusNotFound)
    \/ \E t \in SeqThreads, n \in 0..1 : ChainBindJSON(t, n)
    \/ \E t \in SeqThreads, out \in JSONValues, n \in 0..1 : ChainJSON(t, out, n)
    \/ \E t \in SeqThreads, name \in Templates, n \in 0..1 : ChainView(t, name, n)
    \/ \E t \in SeqThreads : EHDefault(t)
    \/ \E t \in SeqThreads : Release(t)

SpecHelpers == Init /\ [][NextHelpers]_vars

\* Requests logged by RequestLogger, after a request id a middleware before it
\* may have set, under the default error handler.
NextLog ==
    \/ \E t \in SeqThreads, c \in SeqCtxs, accept \in Accepts :
          Acquire(t, c, "", accept, <<>>)
    \/ \E t \in SeqThreads : HSetRequestID(t, "abc")
    \/ \E t \in SeqThreads, next \in LoggedHandlers : ChainRequestLogger(t, next)
    \/ \E t \in SeqThreads : EHDefault(t)
    \/ \E t \in SeqThreads : Release(t)

SpecLog == Init /\ [][NextLog]_vars

\* The server from Run to the return of Shutdown, with requests in flight.
NextServer ==
    \/ Start
    \/ \E t \in Threads, c \in Ctxs : Serve(t, c)
    \/ \E t \in Threads : ChainReturnNil(t)
    \/ \E t \in Threads : Release(t)
    \/ Signal
    \/ CancelContext
    \/ ShutdownBegin
    \/ TimeoutElapses
    \/ ShutdownReturn

SpecServer == Init /\ [][NextServer]_vars

\* Concurrent requests through every exit of Execute, under either error handler.
NextLife ==
    \/ \E t \in Threads, c \in Ctxs : Acquire(t, c, "", FALSE, <<>>)
    \/ \E t \in Threads : ChainReturnNil(t)
    \/ \E t \in Threads : ChainReturnErr(t, ErrNotFound)
    \/ \E t \in Threads, v \in HandlerPanics : ChainPanic(t, v)
    \/ \E t \in Threads : EHDefault(t)
    \/ \E t \in Threads : EHCustomReturn(t)
    \/ \E t \in Threads, v \in HandlerPanics : EHCustomPanic(t, v)
    \/ \E t \in Threads : Release(t)
    \/ \E h \in {"default", "custom"} : SetErrorHandler(h)

\* The handler chain of goroutine t terminates: it returns or it panics.
ChainEnds(t) ==
    \/ ChainReturnNil(t)
    \/ ChainReturnErr(t, ErrNotFound)
    \/ \E v \in HandlerPanics : ChainPanic(t, v)

\* The error handler goroutine t called terminates: it returns or it panics.
ErrorHandlerEnds(t) ==
    \/ EHDefault(t)
    \/ EHCustomReturn(t)
    \/ \E v \in HandlerPanics : EHCustomPanic(t, v)

\* Handler chains and error handlers terminate, and a goroutine leaving Execute
\* runs its deferred calls.
FairLife ==
    \A t \in Threads :
        /\ WF_vars(ChainEnds(t))
        /\ WF_vars(ErrorHandlerEnds(t))
        /\ WF_vars(Release(t))

SpecLife == Init /\ [][NextLife]_vars /\ FairLife

\* Handlers that answer with up to MaxOps response helpers and then return nil,
\* return an error or panic, under the default error handler.
NextOnce ==
    \/ \E t \in SeqThreads, c \in SeqCtxs, accept \in Accepts, method \in {"GET", "POST"} :
          ExecuteBegin(t, c, [NewRequest(served + 1, "", accept, <<>>)
                                 EXCEPT !.Method = method])
    \/ \E t \in SeqThreads, n \in 0..1 : HRaw(t, n)
    \/ \E t \in SeqThreads, n \in 0..1 : HString(t, n)
    \/ \E t \in SeqThreads, out \in JSONValues, n \in 0..1 : HJSON(t, out, n)
    \/ \E t \in SeqThreads, n \in 0..1 : HHTML(t, n)
    \/ \E t \in SeqThreads : HNoContent(t)
    \/ \E t \in SeqThreads, n \in 0..1 : HRedirect(t, n)
    \/ \E t \in SeqThreads : ChainReturnNil(t)
    \/ \E t \in SeqThreads : ChainReturnErr(t, ErrNotFound)
    \/ \E t \in SeqThreads : ChainPanic(t, PanicString("oh no, a panic!"))
    \/ \E t \in SeqThreads : EHDefault(t)
    \/ \E t \in SeqThreads : Release(t)

SpecOnce == Init /\ [][NextOnce]_vars

\* The prefix the application gives the group it creates as the id-th one.
PrefixOf(id) ==
    CASE id = 2 -> "/api"
      [] id = 3 -> "/admin"
      [] id = 4 -> "/v1"
      [] OTHER -> "/x"

\* The routes the application registers with Handle: GET /users, and /any for
\* every method; and with HandleRaw: a host-based pattern.
HandleCalls == { [path |-> "/users", method |-> "GET"], [path |-> "/any", method |-> ""] }

RawPattern == <<"example.com/">>

NextGroup ==
    \/ \E p \in 1..MaxGroups, k \in 0..1 : Group(p, PrefixOf(Len(groups) + 1), k)
    \/ \E g \in 1..MaxGroups, k \in 1..2 : Use(g, k)
    \/ \E g \in 1..MaxGroups, call \in HandleCalls :
          Handle(g, call.method, call.path, "H")
    \/ \E g \in 1..MaxGroups : HandleRaw(g, RawPattern, "H")
    \/ \E i \in 1..MaxRoutes : Dispatch(i)

SpecGroup == Init /\ [][NextGroup]_vars

(***************************************************************************)
(* Claims about the execution engine and the pooled Context.               *)
(***************************************************************************)

\* C1: every Execute call puts the Context it acquired back into the pool exactly
\* once, however it is left: no Put while the call is running, exactly one when
\* it is over, and the Context is then in the pool.
C1_PutExactlyOnce ==
    \A t \in SeqThreads :
        /\ InFlight(t) => exec[t].puts = 0 /\ exec[t].cont \notin pool
        /\ exec[t].pc = "done" => exec[t].puts = 1 /\ exec[t].cont \in pool

\* C1 witness: the error handler panicked on the error-return path and again on
\* the recovery path, the panic left Execute, and the Context was put back once.
C1_Witness ==
    \E t \in SeqThreads :
        /\ exec[t].pc = "done"
        /\ exec[t].esc.set
        /\ Len(ehLog[t]) = 2
        /\ ehLog[t][1].path = "error" /\ ~ehLog[t][1].ret
        /\ ehLog[t][2].path = "recover" /\ ~ehLog[t][2].ret
        /\ exec[t].puts = 1

\* C2: no Context is bound to two requests in flight: the Contexts of two running
\* Execute calls differ, none of them is in the pool, and each is bound to the
\* request and the sink of the call that holds it.
C2_ExclusiveContext ==
    \A t \in Threads :
        InFlight(t) =>
            /\ exec[t].cont \notin pool
            /\ ctx[exec[t].cont].Request.n = req[t].n
            /\ ctx[exec[t].cont].rw = sink[t].n
            /\ \A u \in Threads \ {t} : InFlight(u) => exec[u].cont # exec[t].cont

\* C2 witness: two requests in flight at once, one of them on a Context that an
\* earlier request released.
C2_Witness ==
    \E t, u \in Threads :
        /\ t # u
        /\ InFlight(t) /\ InFlight(u)
        /\ req[t].n < req[u].n
        /\ exec[u].cont < exec[t].cont

\* The handler chain of t is being invoked: nothing of it has run yet.
ChainStart(t) == exec[t].pc = "chain" /\ exec[t].ops = 0 /\ ~exec[t].rid

\* What request r's query string says about key: whether it is there, and its
\* first value.
KeyIndexes(r, key) == {i \in 1..Len(r.q) : r.q[i][1] = key}

FirstValue(r, key) ==
    r.q[CHOOSE i \in KeyIndexes(r, key) : \A j \in KeyIndexes(r, key) : i <= j][2]

\* C3: when the handler chain is invoked, the pooled Context holds the new request,
\* its Response is bound to the new sink with status 0 and written 0, its query
\* cache is empty (QueryParam and HasQueryParam answer from the new request's
\* query string) and its Logger is the base logger, whatever the previous use did.
C3_ResetErasesPreviousUse ==
    \A t \in SeqThreads :
        ChainStart(t) =>
            LET c == ctx[exec[t].cont]
            IN  /\ c.Request = req[t]
                /\ c.Request.vals = NoVals
                /\ c.rw = sink[t].n /\ sink[t].n = req[t].n
                /\ sink[t] = NewSink(req[t].n)
                /\ c.status = 0 /\ c.written = 0
                /\ RespStatus(c) = StatusOK /\ RespWritten(c) = 0
                /\ c.query = NilQuery
                /\ CtxHasQueryParam(c, "x") = (KeyIndexes(req[t], "x") # {})
                /\ CtxQueryParam(c, "x", "d") =
                       IF KeyIndexes(req[t], "x") # {} THEN FirstValue(req[t], "x")
                       ELSE "d"
                /\ c.Logger = MigLogger

\* C3 witness: the chain is invoked on a Context whose previous request wrote a
\* status and bytes, read its query, set a request id and had a scoped logger,
\* and the new request's query differs from what the previous one cached.
C3_Witness ==
    \E t \in SeqThreads :
        /\ ChainStart(t)
        /\ exec[t].stale
        /\ req[t].n > 1
        /\ req[t].q = <<>>

\* C4: a request id and the logger scoped with it do not leak: Mig.Logger stays
\* the base logger, and as long as a request has not set an id itself its
\* RequestID() is "" and its Context logger carries no id field; what the engine
\* logs for a request carries that request's own id and nothing of an earlier one.
C4_NoRequestIDLeak ==
    /\ MigLogger = BaseLogger
    /\ \A t \in SeqThreads :
        /\ (InFlight(t) /\ exec[t].lastId = "") =>
              /\ CtxRequestID(ctx[exec[t].cont]) = ""
              /\ ~LoggerHasKey(ctx[exec[t].cont].Logger, "id")
        /\ InFlight(t) =>
              \A i \in 1..Len(log[t]) :
                  /\ log[t][i].id = exec[t].lastId
                  /\ ~LoggerHasKey(log[t][i].attrs, "id")

\* C4 witness: a request that set no id is served, and logs an error, on a Context
\* whose previous request had set a request id.
C4_Witness ==
    \E t \in SeqThreads :
        /\ exec[t].pc = "put"
        /\ exec[t].stale
        /\ exec[t].lastId = ""
        /\ Len(log[t]) = 1
        /\ log[t][1].id = ""

\* The structured error Execute builds from the panic value v.
ExpectedPanicError(v, err) ==
    /\ Len(err) >= 2
    /\ err[1].kind = "http"
    /\ err[1].Code = StatusInternalServerError
    /\ err[1].Message = "Internal Server Error"
    /\ err[1].Stack # ""
    /\ Internal(err) = (IF v.isErr THEN v.err ELSE <<PlainLayer(v.str)>>)

\* The chain of t panicked with v and Execute handled it as the claim says: the
\* error goes to the current error handler with the request's Context, and
\* Execute returns normally if that handler returns.
PanicHandled(t) ==
    /\ exec[t].pc \in {"eh", "put", "done"}
    /\ exec[t].pc = "eh" =>
          /\ ehLog[t] = <<>>
          /\ exec[t].path = "recover"
          /\ ExpectedPanicError(exec[t].pv, exec[t].arg)
    /\ exec[t].pc \in {"put", "done"} =>
          /\ Len(ehLog[t]) = 1
          /\ ExpectedPanicError(exec[t].pv, ehLog[t][1].err)
          /\ ehLog[t][1].cont = exec[t].cont
          /\ ehLog[t][1].path = "recover"
          /\ exec[t].pc = "put" => ehLog[t][1].h = ErrorHandler
          /\ ehLog[t][1].ret => ~exec[t].esc.set

\* C9 as stated: every panic value other than the abort signal itself is
\* recovered and handed to the error handler as a 500 structured error.
C9_AsStated ==
    \A t \in SeqThreads :
        (exec[t].pv.set /\ exec[t].pv # PanicError(ErrAbortHandler)) => PanicHandled(t)

\* C9 amended: every panic value that is neither the abort signal nor an error
\* wrapping it (errors.Is) is recovered and handed to the current error handler,
\* with the request's Context, as a structured error with Code 500, the generic
\* Message, Internal the recovered value and a non-empty Stack; Execute returns
\* normally if the handler returns.
C9_PanicBecomes500 ==
    \A t \in SeqThreads :
        (/\ exec[t].pv.set
         /\ ~(exec[t].pv.isErr /\ \E i \in 1..Len(exec[t].pv.err) :
                                      exec[t].pv.err[i] = AbortLayer))
        => PanicHandled(t)

\* C9 witness: the chain panicked with a string, the error handler got the 500
\* error and returned, and Execute returned normally.
C9_Witness ==
    \E t \in SeqThreads :
        /\ exec[t].pc = "done"
        /\ exec[t].pv = PanicString("oh no, a panic!")
        /\ Len(ehLog[t]) = 1
        /\ ehLog[t][1].ret
        /\ ehLog[t][1].err[2] = PlainLayer("oh no, a panic!")
        /\ ~exec[t].esc.set

\* The log of t's request holds a 'panic recovered' entry with the panic message
\* (the recovered value as the error), a stack and, when middleware.RequestID ran
\* before the panic, the request's id, equal to the X-Request-ID response header.
PanicLogged(t) ==
    \E i \in 1..Len(log[t]) :
        /\ log[t][i].msg = "panic recovered"
        /\ log[t][i].error =
               (IF exec[t].pv.isErr THEN exec[t].pv.err ELSE <<PlainLayer(exec[t].pv.str)>>)
        /\ log[t][i].stack # ""
        /\ exec[t].rid =>
              /\ log[t][i].id = HeaderGet(sink[t], RequestIDHeader)
              /\ log[t][i].id = CtxRequestID(ctx[exec[t].cont])

\* C10 as stated: for every request whose handler panics (default error handler),
\* the panic does not escape, the response status is 500 and the panic is logged.
C10_AsStated ==
    \A t \in SeqThreads :
        (exec[t].pc = "put" /\ exec[t].pv.set /\ ErrorHandler = "default") =>
            /\ ~exec[t].esc.set
            /\ SinkStatus(sink[t]) = StatusInternalServerError
            /\ PanicLogged(t)

\* C10 amended: for every request whose handler panics with a value that neither
\* is nor wraps the abort signal, under the default error handler, the panic does
\* not escape the request and the log holds the 'panic recovered' entry with the
\* panic message, a stack and the request's id; the response status becomes 500
\* when no status was recorded before the panic, and stays the recorded one
\* otherwise.
C10_PanicRecovered ==
    \A t \in SeqThreads :
        (/\ exec[t].pc = "put"
         /\ exec[t].pv.set
         /\ ~(exec[t].pv.isErr /\ \E i \in 1..Len(exec[t].pv.err) :
                                      exec[t].pv.err[i] = AbortLayer)
         /\ ErrorHandler = "default")
        => /\ ~exec[t].esc.set
           /\ PanicLogged(t)
           /\ exec[t].pst = 0 =>
                 /\ SinkStatus(sink[t]) = StatusInternalServerError
                 /\ sink[t].wh = <<StatusInternalServerError>>
                 /\ RespStatus(ctx[exec[t].cont]) = StatusInternalServerError
           /\ exec[t].pst # 0 => SinkStatus(sink[t]) = exec[t].pst

\* C10 witness: middleware.RequestID generated an id, the handler panicked with a
\* string before anything was written, and the request ended with status 500 and
\* the panic logged under that id.
C10_Witness ==
    \E t \in SeqThreads :
        /\ exec[t].pc = "put"
        /\ exec[t].pv = PanicString("oh no, a panic!")
        /\ exec[t].rid /\ req[t].rid = ""
        /\ exec[t].pst = 0
        /\ ~exec[t].esc.set
        /\ SinkStatus(sink[t]) = StatusInternalServerError
        /\ Len(log[t]) = 1
        /\ log[t][1].msg = "panic recovered"
        /\ log[t][1].id = "4f1a"
        /\ HeaderGet(sink[t], RequestIDHeader) = "4f1a"

\* C11: when the handler chain panics with http.ErrAbortHandler, Execute re-raises
\* that same value, the error handler is not invoked, nothing is logged, nothing is
\* written to the response beyond what the chain itself had forwarded, and the
\* Context is released.
C11_AbortReRaised ==
    \A t \in SeqThreads :
        (exec[t].pv = PanicError(ErrAbortHandler) /\ exec[t].pc \in {"put", "done"}) =>
            /\ exec[t].esc = PanicError(ErrAbortHandler)
            /\ ehLog[t] = <<>>
            /\ log[t] = <<>>
            /\ \A i \in 1..Len(sink[t].body) : sink[t].body[i].k = "raw"
            /\ Len(sink[t].wh) <= exec[t].ops
            /\ "Content-Type" \notin DOMAIN sink[t].hdr
            /\ exec[t].pst = 0 => sink[t].wh = <<>> /\ sink[t].body = <<>>
            /\ exec[t].pc = "done" => exec[t].puts = 1 /\ exec[t].cont \in pool

\* C11 witness: the chain panicked with the abort signal before writing anything;
\* Execute is over, the panic left it, and the Context is back in the pool.
C11_Witness ==
    \E t \in SeqThreads :
        /\ exec[t].pc = "done"
        /\ exec[t].pv = PanicError(ErrAbortHandler)
        /\ exec[t].esc = PanicError(ErrAbortHandler)
        /\ exec[t].pst = 0
        /\ sink[t].wh = <<>>
        /\ exec[t].cont \in pool
        /\ ErrorHandler = "custom"

\* C12: when the chain returns a non-nil error without panicking, Execute calls
\* the handler stored in Mig.ErrorHandler at that moment, first and with exactly
\* that error and the request's Context; an application's handler in place, the
\* default one is not run (nothing is logged, nothing written for the error); when
\* the chain returns nil no error handler is called.
C12_ErrorToCurrentHandler ==
    \A t \in SeqThreads :
        /\ (exec[t].pc \in {"put", "done"} /\ exec[t].ret # NoError) =>
              /\ Len(ehLog[t]) >= 1
              /\ ehLog[t][1].err = exec[t].ret
              /\ ehLog[t][1].cont = exec[t].cont
              /\ ehLog[t][1].path = "error"
              /\ exec[t].pc = "put" => ehLog[t][1].h = ErrorHandler
              /\ ehLog[t][1].h = "custom" =>
                    /\ log[t] = <<>>
                    /\ \A i \in 1..Len(sink[t].body) : sink[t].body[i].k = "raw"
                    /\ Len(sink[t].wh) <= exec[t].ops
              /\ ehLog[t][1].h = "default" => Len(log[t]) = 1
        /\ (exec[t].pc = "eh" /\ exec[t].ret # NoError /\ exec[t].path = "error") =>
              /\ ehLog[t] = <<>>
              /\ exec[t].arg = exec[t].ret
        /\ (exec[t].pc \in {"put", "done"} /\ exec[t].ret = NoError /\ ~exec[t].pv.set) =>
              /\ ehLog[t] = <<>>
              /\ log[t] = <<>>

\* C12 witness: after a request was served under the default handler the
\* application assigned its own; the next chain returned ErrNotFound, and Execute
\* handed that error to the application's handler, the default one staying out.
C12_Witness ==
    \E t \in SeqThreads :
        /\ exec[t].pc = "put"
        /\ req[t].n > 1
        /\ ErrorHandler = "custom"
        /\ exec[t].ret = ErrNotFound
        /\ Len(ehLog[t]) = 1
        /\ ehLog[t][1].h = "custom"
        /\ ehLog[t][1].err = ErrNotFound
        /\ ehLog[t][1].ret
        /\ log[t] = <<>>
        /\ sink[t].wh = <<>>

(***************************************************************************)
(* Claims about the default error handler and the Response wrapper.        *)
(***************************************************************************)

\* C13: invoked on a response with Written() > 0, DefaultErrorHandler forwards no
\* WriteHeader and no Write, sets no header and leaves the recorded status and the
\* written count as they were, but it emits its one log entry.
C13_NoWriteAfterBytes ==
    \A t \in SeqThreads :
        (exec[t].pc = "eh" /\ RespWritten(ctx[exec[t].cont]) > 0) =>
            LET e == EnvOf(t)
                r == DefaultErrorHandler(e, exec[t].arg)
            IN  /\ r.s = e.s
                /\ r.c = e.c
                /\ Len(r.lg) = Len(e.lg) + 1
                /\ SubSeq(r.lg, 1, Len(e.lg)) = e.lg

\* C13 witness: the chain wrote bytes and then returned an error; the handler ran,
\* logged the error, and the sink holds the chain's bytes and status alone.
C13_Witness ==
    \E t \in SeqThreads :
        /\ exec[t].pc = "put"
        /\ exec[t].ret = ErrNotFound
        /\ Len(ehLog[t]) = 1
        /\ ctx[exec[t].cont].written = MaxWrite
        /\ sink[t].wh = <<StatusOK>>
        /\ sink[t].cnt = <<MaxWrite>>
        /\ sink[t].body = <<Chunk("raw", 0, "data")>>
        /\ sink[t].hdr = NoHeaders
        /\ Len(log[t]) = 1
        /\ log[t][1].msg = "request error"

\* Structured errors with the Code and Message of h and every combination of an
\* internal cause and a stack.
Variants(h) ==
    { <<HTTPLayer(h.Code, h.Message, st)>> \o int :
        st \in {"", DebugStack},
        int \in {<<>>, <<PlainLayer("sql: no rows")>>, <<PlainLayer("token=hunter2")>>} }

\* The texts that must stay in the logs: the internal causes and the stack of err.
Secrets(err) ==
    {err[i].Message : i \in 2..Len(err)} \cup ({err[1].Stack} \ {""})

\* C14: what DefaultErrorHandler sends depends on the error's Code and Message and
\* on the request only: errors that differ in internal cause and stack alone give
\* the same sink (status, headers, body) and the same recorded status and count,
\* and no payload written for an error carries its internal cause or its stack.
C14_InternalNeverSent ==
    \A t \in SeqThreads :
        /\ exec[t].pc = "eh" =>
              LET e == EnvOf(t)
                  he == Coerce(exec[t].arg)
                  base == DefaultErrorHandler(e, exec[t].arg)
              IN  /\ \A x \in Variants(he[1]) :
                        LET r == DefaultErrorHandler(e, x)
                        IN  /\ r.s = base.s
                            /\ r.c.status = base.c.status
                            /\ r.c.written = base.c.written
                  /\ \A i \in 1..Len(base.s.body) :
                        base.s.body[i].k \in {"json", "text"} =>
                            /\ base.s.body[i].Message = he[1].Message
                            /\ base.s.body[i].Message \notin Secrets(he)
        /\ (exec[t].pc = "put" /\ Len(ehLog[t]) = 1) =>
              \A i \in 1..Len(sink[t].body) :
                  sink[t].body[i].k \in {"json", "text"} =>
                      /\ sink[t].body[i].Message = Coerce(ehLog[t][1].err)[1].Message
                      /\ sink[t].body[i].Message \notin Secrets(Coerce(ehLog[t][1].err))

\* C14 witness: a 404 with an internal cause was answered in plain text with the
\* public message, and the cause went to the log alone.
C14_Witness ==
    \E t \in SeqThreads :
        /\ exec[t].pc = "put"
        /\ Len(ehLog[t]) = 1
        /\ ehLog[t][1].err =
               <<HTTPLayer(StatusNotFound, "no such user", ""), PlainLayer("sql: no rows")>>
        /\ ~req[t].accept
        /\ sink[t].wh = <<StatusNotFound>>
        /\ sink[t].body = <<Chunk("text", 0, "no such user")>>
        /\ Len(log[t]) = 1
        /\ log[t][1].error = <<PlainLayer("sql: no rows")>>

\* C15: on a response with Written() = 0 DefaultErrorHandler decides in this order:
\* Code 204 or 304: it forwards the status alone, no body and no content type,
\* whatever Accept says; else Accept containing application/json: status Code, the
\* JSON content type and the payload {code, message}; else status Code and a
\* plain-text body equal to Message.
C15_ResponsePriority ==
    \A t \in SeqThreads :
        (exec[t].pc = "eh" /\ RespWritten(ctx[exec[t].cont]) = 0) =>
            LET e == EnvOf(t)
                h == Coerce(exec[t].arg)[1]
                r == DefaultErrorHandler(e, exec[t].arg)
            IN  /\ r.s.wh = Append(e.s.wh, h.Code)
                /\ r.c.status = (IF e.c.status = 0 THEN h.Code ELSE e.c.status)
                /\ IF h.Code \in {StatusNoContent, StatusNotModified}
                   THEN /\ r.s.body = e.s.body
                        /\ r.s.cnt = e.s.cnt
                        /\ r.s.hdr = e.s.hdr
                        /\ r.c.written = 0
                   ELSE IF e.c.Request.accept
                   THEN /\ r.s.body = Append(e.s.body, Chunk("json", h.Code, h.Message))
                        /\ HeaderGet(r.s, "Content-Type") = "application/json; charset=utf-8"
                        /\ r.c.written > 0
                   ELSE /\ r.s.body = Append(e.s.body, Chunk("text", 0, h.Message))
                        /\ HeaderGet(r.s, "Content-Type") = "text/plain; charset=utf-8"
                        /\ r.c.written > 0

\* C15 witness: a request asking for JSON whose chain returned a 304: the handler
\* forwarded the status and nothing else.
C15_Witness ==
    \E t \in SeqThreads :
        /\ exec[t].pc = "put"
        /\ req[t].accept
        /\ Len(ehLog[t]) = 1
        /\ ehLog[t][1].err = NewHTTPError(StatusNotModified)
        /\ sink[t].wh = <<StatusNotModified>>
        /\ sink[t].body = <<>>
        /\ sink[t].hdr = NoHeaders
        /\ ctx[exec[t].cont].written = 0

\* What the handler made of err, read off its log entry and its answer on a
\* response not yet written: the code and internal cause logged, the status
\* forwarded and the message sent.
TreatedAs(t, code, msg, int) ==
    LET e == EnvOf(t)
        r == DefaultErrorHandler(e, exec[t].arg)
        entry == r.lg[Len(r.lg)]
    IN  /\ entry.error = int
        /\ entry.msg = "request error" => entry.code = code
        /\ RespWritten(e.c) = 0 =>
              /\ r.s.wh = Append(e.s.wh, code)
              /\ code \notin {StatusNoContent, StatusNotModified} =>
                    r.s.body[Len(r.s.body)].Message = msg

\* C16 as stated: an error that is not itself a structured HTTPError is treated as
\* Code 500, 'Internal Server Error', Internal the original error; a structured
\* error keeps its Code and Message.
C16_AsStated ==
    \A t \in SeqThreads :
        exec[t].pc = "eh" =>
            IF exec[t].arg[1].kind = "http"
            THEN TreatedAs(t, exec[t].arg[1].Code, exec[t].arg[1].Message,
                           Internal(exec[t].arg))
            ELSE TreatedAs(t, StatusInternalServerError, "Internal Server Error",
                           exec[t].arg)

\* C16 amended: an error with no HTTPError anywhere in its Unwrap chain is treated
\* as Code 500, 'Internal Server Error', Internal the original error; an error
\* that is, or wraps, an HTTPError is treated as the first HTTPError of its chain,
\* with that error's Code, Message and Internal.
C16_CoerceByErrorsAs ==
    \A t \in SeqThreads :
        exec[t].pc = "eh" =>
            LET err == exec[t].arg
                idx == {i \in 1..Len(err) : err[i].kind = "http"}
            IN  IF idx = {}
                THEN TreatedAs(t, StatusInternalServerError, "Internal Server Error", err)
                ELSE LET i == CHOOSE j \in idx : \A k \in idx : j <= k
                     IN  TreatedAs(t, err[i].Code, err[i].Message,
                                   SubSeq(err, i + 1, Len(err)))

\* C16 witness: a plain error was answered with 500 and the generic message and
\* logged as code 500 with the original error as the cause.
C16_Witness ==
    \E t \in SeqThreads :
        /\ exec[t].pc = "put"
        /\ Len(ehLog[t]) = 1
        /\ ehLog[t][1].err = <<PlainLayer("db down")>>
        /\ sink[t].wh = <<StatusInternalServerError>>
        /\ sink[t].body[1].Message = "Internal Server Error"
        /\ Len(log[t]) = 1
        /\ log[t][1].code = StatusInternalServerError
        /\ log[t][1].error = <<PlainLayer("db down")>>

\* C17: within one request the status recorded by the Response wrapper is the code
\* of the first WriteHeader call, explicit or implicit, and stays so, while every
\* WriteHeader call is forwarded to the sink; Status() is the recorded status, and
\* 200 when none was recorded, as when the chain returns nil having written nothing.
C17_FirstStatusWins ==
    \A t \in SeqThreads :
        InFlight(t) =>
            LET c == ctx[exec[t].cont]
                e == EnvOf(t)
            IN  /\ c.status = (IF sink[t].wh = <<>> THEN 0 ELSE sink[t].wh[1])
                /\ RespStatus(c) = (IF sink[t].wh = <<>> THEN StatusOK ELSE sink[t].wh[1])
                /\ \A code \in {StatusOK, StatusNoContent, StatusNotFound} :
                      LET r == RespWriteHeader(e, code)
                      IN  /\ r.s.wh = Append(e.s.wh, code)
                          /\ r.c.status = (IF sink[t].wh = <<>> THEN code ELSE sink[t].wh[1])
                          /\ sink[t].wh # <<>> => RespStatus(r.c) = RespStatus(c)
                /\ (exec[t].pc = "put" /\ exec[t].ops = 0 /\ exec[t].ret = NoError
                        /\ ~exec[t].pv.set) =>
                      /\ c.status = 0
                      /\ RespStatus(c) = StatusOK

\* C17 witness: the chain called WriteHeader(204) and returned ErrNotFound; the
\* error handler's WriteHeader(404) reached the sink too, and the recorded status
\* is still 204.
C17_Witness ==
    \E t \in SeqThreads :
        /\ exec[t].pc = "put"
        /\ exec[t].ret = ErrNotFound
        /\ sink[t].wh = <<StatusNoContent, StatusNotFound>>
        /\ ctx[exec[t].cont].status = StatusNoContent
        /\ RespStatus(ctx[exec[t].cont]) = StatusNoContent

\* The sum of the numbers of a sequence.
RECURSIVE SumSeq(_)
SumSeq(s) == IF s = <<>> THEN 0 ELSE Head(s) + SumSeq(Tail(s))

DecodableIndexes(r, key) == {i \in KeyIndexes(r, key) : ~Malformed(r.q[i])}

\* The answers of HasQueryParam and QueryParam on Context c are has and val, asked
\* in either order and repeatedly: on c as it is, and on c after one of the two
\* calls has filled the cache.
QueryAnswers(c, name, has, val) ==
    /\ CtxHasQueryParam(c, name) = has
    /\ CtxQueryParam(c, name, "d") = val
    /\ CtxHasQueryParam(CtxLoadQuery(c), name) = has
    /\ CtxQueryParam(CtxLoadQuery(c), name, "d") = val
    /\ CtxLoadQuery(CtxLoadQuery(c)) = CtxLoadQuery(c)

\* C19 as stated: for every query string and name, HasQueryParam is true exactly
\* when the key is present in the query string, and QueryParam returns the first
\* value of the key when it is present and the default only when it is absent.
C19_AsStated ==
    \A t \in SeqThreads :
        exec[t].pc = "chain" =>
            \A name \in {"x", "y", "z"} :
                QueryAnswers(ctx[exec[t].cont], name,
                             KeyIndexes(req[t], name) # {},
                             IF KeyIndexes(req[t], name) # {}
                             THEN FirstValue(req[t], name) ELSE "d")

\* C19 amended: HasQueryParam(name) is true exactly when the key is present in a
\* pair of the query string that the parser can decode (also for an empty value);
\* QueryParam(name, def) returns the value of the first such pair (the empty string
\* for ?x=) and def only when there is none; the answers are the same whichever is
\* called first and however often, and whatever Put and SetRequestID did to the
\* request handle in between.
C19_QueryParamPresence ==
    \A t \in SeqThreads :
        exec[t].pc = "chain" =>
            LET c == ctx[exec[t].cont]
            IN  /\ c.query.set => c.query.m = ParseQuery(req[t].q)
                /\ \A name \in {"x", "y", "z"} :
                      LET idx == DecodableIndexes(req[t], name)
                      IN  QueryAnswers(c, name, idx # {},
                                       IF idx # {}
                                       THEN req[t].q[CHOOSE i \in idx :
                                                        \A j \in idx : i <= j][2]
                                       ELSE "d")

\* C19 witness: a request with ?x= whose chain has asked for a parameter and then
\* replaced the request handle: x is present and its value is the empty string.
C19_Witness ==
    \E t \in SeqThreads :
        /\ exec[t].pc = "chain"
        /\ req[t].q = << <<"x", "">> >>
        /\ ctx[exec[t].cont].query.set
        /\ ctx[exec[t].cont].Request # req[t]
        /\ CtxHasQueryParam(ctx[exec[t].cont], "x")
        /\ CtxQueryParam(ctx[exec[t].cont], "x", "d") = ""

\* C20: within one request Get(k) returns the value of the last Put(k, ...) of
\* this request, whatever Put did to other keys and SetRequestID to the request
\* handle in between, and RequestID() the last id set, whatever was Put since; Get
\* of a key not put in this request returns nil (""), also when a previous request
\* on the same pooled Context had put it.
C20_PutGetWithinRequest ==
    \A t \in SeqThreads :
        InFlight(t) =>
            LET c == ctx[exec[t].cont]
            IN  /\ \A key \in {"k", "j", "other"} :
                      CtxGet(c, key) =
                          (IF key \in DOMAIN exec[t].kv THEN exec[t].kv[key] ELSE "")
                /\ CtxRequestID(c) = exec[t].lastId
                /\ c.Request.n = req[t].n

\* C20 witness: a later request on the pooled Context put k, then set a request
\* id: Get(k) still returns the value, RequestID() the id, and Get(j) nil.
C20_Witness ==
    \E t \in SeqThreads :
        /\ exec[t].pc = "chain"
        /\ req[t].n > 1
        /\ exec[t].kv = ("k" :> "w")
        /\ exec[t].lastId = "abc"
        /\ CtxGet(ctx[exec[t].cont], "k") = "w"
        /\ CtxGet(ctx[exec[t].cont], "j") = ""
        /\ CtxRequestID(ctx[exec[t].cont]) = "abc"

\* C21: after any sequence of SetRequestID calls in a request, once an identifier
\* is established the response header X-Request-ID is set and equals RequestID(),
\* and both are the id of the most recent SetRequestID call with a non-empty id;
\* before any such call RequestID() is "" and the header is not set.
C21_RequestIDMirrored ==
    \A t \in SeqThreads :
        exec[t].pc \in {"chain", "put", "done"} =>
            LET c == ctx[exec[t].cont]
                s == EnvOf(t).s
            IN  /\ exec[t].lastId # "" =>
                      /\ RequestIDHeader \in DOMAIN s.hdr
                      /\ HeaderGet(s, RequestIDHeader) = CtxRequestID(c)
                      /\ CtxRequestID(c) = exec[t].lastId
                /\ exec[t].lastId = "" =>
                      /\ CtxRequestID(c) = ""
                      /\ RequestIDHeader \notin DOMAIN s.hdr

\* C21 witness: a request called SetRequestID("abc") and then SetRequestID("xyz");
\* the header and RequestID() are both "xyz".
C21_Witness ==
    \E t \in SeqThreads :
        /\ exec[t].pc = "chain"
        /\ ctx[exec[t].cont].Logger = <<<<"id", "abc">>, <<"id", "xyz">>>>
        /\ exec[t].lastId = "xyz"
        /\ HeaderGet(EnvOf(t).s, RequestIDHeader) = "xyz"
        /\ CtxRequestID(ctx[exec[t].cont]) = "xyz"

\* Ids middleware.RequestID generates when reading the random source succeeds.
GeneratedIDs == {"4f1a"}

\* C22: when middleware.RequestID calls the downstream handler, RequestID() is
\* non-empty and the X-Request-ID response header is set to it; the id is the
\* incoming X-Request-ID header when that is non-empty, a generated id otherwise.
C22_AsStated ==
    [][\A t \in SeqThreads :
          (~exec[t].rid /\ exec'[t].rid) =>
              LET id == CtxRequestID(ctx'[exec'[t].cont])
              IN  /\ id # ""
                  /\ RequestIDHeader \in DOMAIN sink'[t].hdr
                  /\ sink'[t].hdr[RequestIDHeader] = id
                  /\ req[t].rid # "" => id = req[t].rid
                  /\ req[t].rid = "" => id \in GeneratedIDs]_vars

\* C31: SetRequestID("") changes nothing: the request handle with its
\* request-scoped store, RequestID(), the response headers (X-Request-ID among
\* them) and the Context logger are as they were; and RequestID() is "" in a
\* request in which no non-empty id was set, whatever the Context carried before.
C31_EmptyIDChangesNothing ==
    /\ [][\A t \in SeqThreads :
             HSetRequestID(t, "") =>
                 LET c == exec[t].cont
                 IN  /\ ctx'[c].Request = ctx[c].Request
                     /\ CtxRequestID(ctx'[c]) = CtxRequestID(ctx[c])
                     /\ ctx'[c].Logger = ctx[c].Logger
                     /\ ctx' = ctx
                     /\ sink'[t].hdr = sink[t].hdr
                     /\ sink' = sink
                     /\ log' = log]_vars
    /\ [](\A t \in SeqThreads :
             (exec[t].pc \in {"chain", "put", "done"} /\ exec[t].lastId = "") =>
                 CtxRequestID(ctx[exec[t].cont]) = "")

\* C31 witness: a request on a Context whose previous request had an id and a
\* scoped logger; its one operation so far was SetRequestID("") (nothing was Put
\* or written, the query was not read), and RequestID() is "".
C31_Witness ==
    \E t \in SeqThreads :
        /\ exec[t].pc = "chain"
        /\ exec[t].stale
        /\ exec[t].ops = 1
        /\ ~exec[t].rid
        /\ exec[t].lastId = ""
        /\ exec[t].kv = NoVals
        /\ ~ctx[exec[t].cont].query.set
        /\ ctx[exec[t].cont].status = 0
        /\ ctx[exec[t].cont].written = 0
        /\ ctx[exec[t].cont].Logger = MigLogger
        /\ CtxRequestID(ctx[exec[t].cont]) = ""
        /\ RequestIDHeader \notin DOMAIN sink[t].hdr

(***************************************************************************)
(* Claims about the middleware and the response helpers of the Context.    *)
(***************************************************************************)

\* The challenge the claim expects for a configured realm.
ExpectedChallenge(cfgRealm) ==
    <<"Basic realm=", IF cfgRealm = "" THEN "\"restricted\"" ELSE "\"Test Realm\"">>

\* C23: BasicAuth invokes the downstream handler if and only if the request
\* carries Basic credentials that IsAllowed accepts, and then returns its result
\* unchanged and adds nothing of its own; otherwise the downstream handler is not
\* invoked, WWW-Authenticate is 'Basic realm=' and the configured realm in double
\* quotes ("restricted" when none is configured), the error returned is
\* NewHTTPError(401), and the response is a 401 that carries the challenge.
C23_BasicAuth ==
    \A t \in SeqThreads :
        /\ exec[t].pc = "chain" =>
              \A cfgRealm \in Realms, next \in ReturningHandlers :
                  LET e == EnvOf(t)
                      o == BasicAuthHandler(e, cfgRealm, next)
                      ok == e.c.Request.auth = BasicCredentials("mig", "secret")
                  IN  /\ o.down.called <=> ok
                      /\ ok => /\ o.down.next = next
                               /\ o.ret = next.ret
                               /\ o.pv = next.pv
                               /\ o.e = IF next.w
                                        THEN RespWrite(e, Chunk("raw", 0, "data"), 1)
                                        ELSE e
                               /\ "WWW-Authenticate" \notin DOMAIN o.e.s.hdr
                      /\ ~ok => /\ o.ret = <<HTTPLayer(401, "Unauthorized", "")>>
                                /\ ~o.pv.set
                                /\ o.e.s.hdr["WWW-Authenticate"] = ExpectedChallenge(cfgRealm)
                                /\ o.e.c = e.c
                                /\ o.e.s.wh = <<>> /\ o.e.s.body = <<>>
        /\ (exec[t].op = "BasicAuth" /\ exec[t].pc \in {"put", "done"}
                /\ ~exec[t].down.called) =>
              /\ req[t].auth # BasicCredentials("mig", "secret")
              /\ sink[t].wh = <<401>>
              /\ Len(sink[t].body) = 1
              /\ sink[t].body[1].Message = "Unauthorized"
              /\ sink[t].sent["WWW-Authenticate"] = ExpectedChallenge(exec[t].in)
        /\ (exec[t].op = "BasicAuth" /\ exec[t].down.called) =>
              /\ req[t].auth = BasicCredentials("mig", "secret")
              /\ exec[t].ret = exec[t].down.next.ret
              /\ "WWW-Authenticate" \notin DOMAIN sink[t].hdr

\* C23 witness: a request with a wrong password met BasicAuth with no realm
\* configured: the downstream handler did not run and the response is the 401
\* with the challenge for "restricted".
C23_Witness ==
    \E t \in SeqThreads :
        /\ exec[t].pc = "put"
        /\ exec[t].op = "BasicAuth"
        /\ exec[t].in = ""
        /\ ~exec[t].down.called
        /\ req[t].auth = BasicCredentials("mig", "wrong")
        /\ SinkStatus(sink[t]) = 401
        /\ sink[t].sent["WWW-Authenticate"] = <<"Basic realm=", "\"restricted\"">>

\* A body that is JSON for the target: one value, with the target's fields and
\* types, and nothing after it.
FitsTarget(body) == body = <<"user">>

FirstValueFits(body) == body # <<>> /\ body[1] = "user"

\* The error decoding the first value of the body gives.
DecodeErrorOf(body) ==
    IF body = <<>> THEN "EOF"
    ELSE CASE body[1] = "syntax" -> "invalid character"
           [] body[1] = "unknown" -> "json: unknown field"
           [] body[1] = "mismatch" -> "json: cannot unmarshal string into int"
           [] OTHER -> ""

C25_JSON ==
    \A t \in SeqThreads :
        /\ exec[t].pc = "chain" =>
              \A n \in 0..1 :
                  LET e == EnvOf(t)
                      bad == CtxJSON(e, "chan", n)
                      o == CtxJSON(e, "user", n)
                  IN  /\ bad.ret = <<PlainLayer("json: unsupported type: chan int")>>
                      /\ bad.e = e
                      /\ ~bad.pv.set /\ ~o.pv.set
                      /\ o.e.s.hdr["Content-Type"] = "application/json; charset=utf-8"
                      /\ o.e.s.wh = Append(e.s.wh, 200)
                      /\ e.s.wh = <<>> =>
                            HeaderSent(o.e.s, "Content-Type") = "application/json; charset=utf-8"
                      /\ RespStatus(o.e.c) = IF e.c.status = 0 THEN 200 ELSE e.c.status
                      /\ o.e.s.cnt = Append(e.s.cnt, n)
                      /\ o.e.s.body = IF n > 0
                                      THEN Append(e.s.body, Chunk("value", 0, "{\"name\":\"mig\"}"))
                                      ELSE e.s.body
                      /\ RespWritten(o.e.c) = RespWritten(e.c) + n
                      /\ o.ret = IF n = 1 THEN NoError ELSE WriteError
        /\ (exec[t].op = "JSON" /\ exec[t].in = "chan") =>
              exec[t].ret = <<PlainLayer("json: unsupported type: chan int")>>
        /\ (exec[t].op = "JSON" /\ exec[t].in = "user" /\ exec[t].ops = 0) =>
              /\ sink[t].wh[1] = 200
              /\ HeaderSent(sink[t], "Content-Type") = "application/json; charset=utf-8"

\* C25 witness: a handler answered with c.JSON(user) on a fresh response: the
\* sink got the content type with the status 200, then the body.
C25_Witness ==
    \E t \in SeqThreads :
        /\ exec[t].pc = "put"
        /\ exec[t].op = "JSON"
        /\ exec[t].in = "user"
        /\ exec[t].ret = NoError
        /\ sink[t].wh = <<200>>
        /\ sink[t].sent["Content-Type"] = "application/json; charset=utf-8"
        /\ sink[t].body = <<Chunk("value", 0, "{\"name\":\"mig\"}")>>
        /\ RespWritten(ctx[exec[t].cont]) = 1

\* The error the renderer returns for a template it cannot render.
RenderErrorOf(name) ==
    IF name = "broken" THEN <<PlainLayer("template: nil pointer evaluating")>>
    ELSE <<PlainLayer("template: no template")>>

\* C26: Context.View: if the Renderer returns an error, View returns that same
\* error and nothing has been written to the response (no header, no status, no
\* bytes), also when the renderer produced part of its output before it failed;
\* only when rendering succeeds is the complete output written, as HTML.
C26_View ==
    \A t \in SeqThreads :
        /\ exec[t].pc = "chain" =>
              \A n \in 0..1 :
                  LET e == EnvOf(t)
                      o == CtxView(e, "page", n)
                  IN  /\ \A name \in {"broken", "missing"} :
                            /\ CtxView(e, name, n).ret = RenderErrorOf(name)
                            /\ CtxView(e, name, n).e = e
                            /\ ~CtxView(e, name, n).pv.set
                      /\ HeaderGet(o.e.s, "Content-Type") = "text/html; charset=utf-8"
                      /\ o.e.s.cnt = Append(e.s.cnt, n)
                      /\ o.e.s.body = IF n > 0
                                      THEN Append(e.s.body, Chunk("html", 0, "<h1>Hello</h1>"))
                                      ELSE e.s.body
                      /\ o.e.s.wh = IF e.c.status = 0 THEN Append(e.s.wh, 200) ELSE e.s.wh
                      /\ o.ret = IF n = 1 THEN NoError ELSE WriteError
        /\ (exec[t].op = "View" /\ exec[t].in \in {"broken", "missing"}) =>
              /\ exec[t].ret = RenderErrorOf(exec[t].in)
              /\ \A i \in 1..Len(sink[t].body) : sink[t].body[i].k # "html"
              /\ HeaderGet(sink[t], "Content-Type") # "text/html; charset=utf-8"
        /\ (exec[t].op = "View" /\ exec[t].in = "page" /\ exec[t].ret = NoError) =>
              /\ HeaderGet(sink[t], "Content-Type") = "text/html; charset=utf-8"
              /\ sink[t].body = <<Chunk("html", 0, "<h1>Hello</h1>")>>

\* C26 witness: the renderer failed halfway through a template: View returned
\* its error to Execute and the response is still untouched.
C26_Witness ==
    \E t \in SeqThreads :
        /\ exec[t].pc = "eh"
        /\ exec[t].op = "View"
        /\ exec[t].in = "broken"
        /\ Render("broken").buf # ""
        /\ exec[t].arg = <<PlainLayer("template: nil pointer evaluating")>>
        /\ sink[t] = NewSink(req[t].n)
        /\ RespWritten(ctx[exec[t].cont]) = 0
        /\ ctx[exec[t].cont].status = 0

\* The entries RequestLogger wrote among lg.
RequestEntries(lg) == {i \in 1..Len(lg) : lg[i].msg = "request"}

\* C28: RequestLogger writes exactly one log entry per request it wraps, whether
\* the downstream handler returns nil, returns an error or panics; a returned
\* error is passed upstream unchanged, and on a panic the entry is written and the
\* panic goes on to the recovery of Execute.
C28_OneEntryPerRequest ==
    \A t \in SeqThreads :
        /\ exec[t].pc = "chain" =>
              \A next \in LoggedHandlers :
                  LET e == EnvOf(t)
                      o == RequestLoggerHandler(e, next)
                  IN  /\ Len(o.e.lg) = Len(e.lg) + 1
                      /\ SubSeq(o.e.lg, 1, Len(e.lg)) = e.lg
                      /\ o.e.lg[Len(o.e.lg)].msg = "request"
                      /\ o.e.lg[Len(o.e.lg)].attrs = o.e.c.Logger
                      /\ o.down = Called(next)
                      /\ o.ret = next.ret
                      /\ o.pv = next.pv
                      /\ o.e.s = CallNext(e, next).e.s
        /\ (exec[t].op = "RequestLogger" /\ exec[t].pc \in {"eh", "put", "done"}) =>
              /\ Cardinality(RequestEntries(log[t])) = 1
              /\ exec[t].down.called
              /\ exec[t].down.next.pv.set =>
                    /\ exec[t].pv = exec[t].down.next.pv
                    /\ exec[t].path = "recover" \/ exec[t].esc = exec[t].down.next.pv
              /\ ~exec[t].down.next.pv.set =>
                    /\ exec[t].ret = exec[t].down.next.ret
                    /\ exec[t].path = IF exec[t].ret = NoError THEN "" ELSE "error"

\* C28 witness: the handler under RequestLogger panicked: the request entry was
\* written, then Execute recovered the panic and the error handler logged it.
C28_Witness ==
    \E t \in SeqThreads :
        /\ exec[t].pc = "put"
        /\ exec[t].op = "RequestLogger"
        /\ exec[t].down.next.pv = PanicString("oh no, a panic!")
        /\ exec[t].path = "recover"
        /\ Len(log[t]) = 2
        /\ log[t][1].msg = "request"
        /\ log[t][2].msg = "panic recovered"
        /\ SinkStatus(sink[t]) = 500

\* C34: the status RequestLogger logs for a request equals the status code of
\* the response finally sent to the client, also when the downstream handler
\* returns an error or panics and the response is produced by the error handler.
C34_AsStated ==
    \A t \in SeqThreads :
        (exec[t].pc = "done" /\ exec[t].op = "RequestLogger" /\ ~exec[t].esc.set) =>
            \A i \in RequestEntries(log[t]) : log[t][i].status = SinkStatus(sink[t])

(***************************************************************************)
(* Claims about the server and the lifecycle of the Context.               *)
(***************************************************************************)

\* C29: Shutdown stops the server gracefully: it does not return while requests
\* are still in flight before ShutdownTimeout has elapsed, whatever triggered the
\* shutdown in Run (an OS signal or the cancellation of the context given to New).
C29_AsStated ==
    srv.pc = "stopped" => (srv.left = 0 \/ srv.elapsed)

\* C32: for every request handled through Execute with the default error
\* handler the sink receives at most one WriteHeader call, whatever response
\* helpers the handler used before it returned nil, returned an error or
\* panicked.
C32_AsStated ==
    \A t \in SeqThreads : Len(sink[t].wh) <= 1

Holders(c) == {t \in Threads : InFlight(t) /\ exec[t].cont = c}

\* Where Context c is in its lifecycle.  A Context the pool has not constructed
\* yet counts as Idle: Get takes it from pool.New as it takes one from the pool.
\* Lost (out of the pool with no goroutine to put it back) and Shared (in the
\* pool, or with a second goroutine, while a goroutine is in Execute with it)
\* are the states outside the lifecycle.
Phase(c) ==
    IF Holders(c) = {}
    THEN IF c \in pool \/ ~ctx[c].made THEN "Idle" ELSE "Lost"
    ELSE IF c \in pool \/ Cardinality(Holders(c)) > 1 THEN "Shared"
    ELSE LET x == exec[CHOOSE t \in Holders(c) : TRUE]
         IN  IF x.pc \in {"chain", "eh"} THEN "Active"
             ELSE IF x.path = "recover" \/ x.esc.set THEN "Recovered"
             ELSE "Completed"

LifecycleSteps ==
    { <<"Idle", "Active">>, <<"Active", "Completed">>, <<"Active", "Recovered">>,
      <<"Completed", "Idle">>, <<"Recovered", "Idle">> }

\* Goroutine t's call of the error handler ends in this step.
ErrorHandlerCallEnds(t) == Len(ehLog'[t]) > Len(ehLog[t])

\* C30: each Context follows only the lifecycle Idle -> Active -> Completed or
\* Recovered -> Idle; a Context with a handler chain or an error handler running
\* on it is not in the pool, from the call of the error handler to its end; and
\* when handler chains and error handlers terminate, every acquired Context
\* eventually returns to Idle.
C30_ContextLifecycle ==
    /\ [](\A t \in Threads :
            exec[t].pc \in {"chain", "eh"} => Phase(exec[t].cont) = "Active")
    /\ [][/\ \A c \in Ctxs :
               Phase(c)' # Phase(c) => <<Phase(c), Phase(c)'>> \in LifecycleSteps
           /\ \A t \in Threads :
               ErrorHandlerCallEnds(t) =>
                   /\ Phase(exec[t].cont) = "Active"
                   /\ exec'[t].cont = exec[t].cont
                   /\ Phase(exec[t].cont)' \in {"Active", "Completed", "Recovered"}]_vars
    /\ \A c \in Ctxs : (Phase(c) # "Idle") ~> (Phase(c) = "Idle")

\* Both Contexts are back in the pool, one after a recovered panic that its
\* error handler was given and one after an error handler that panicked in the
\* recovery itself.
C30_Witness ==
    /\ pool = Ctxs
    /\ \E t, u \in Threads :
        /\ t # u
        /\ exec[t].pc = "done" /\ exec[u].pc = "done"
        /\ exec[t].cont # exec[u].cont
        /\ exec[t].path = "recover" /\ ~exec[t].esc.set /\ Len(ehLog[t]) = 1
        /\ exec[u].path = "recover" /\ exec[u].esc.set /\ Len(ehLog[u]) = 2

(***************************************************************************)
(* Claims about route groups and middleware composition.                   *)
(***************************************************************************)

\* The group that added middleware m (by Group or by Use), 0 if none did.
Owner(m) ==
    IF \E g \in DOMAIN groups : \E j \in 1..Len(groups[g].own) : groups[g].own[j] = m
    THEN CHOOSE g \in DOMAIN groups : \E j \in 1..Len(groups[g].own) : groups[g].own[j] = m
    ELSE 0

\* How far below the root group g is.
RECURSIVE Depth(_)
Depth(g) == IF groups[g].ParentRouter = 0 THEN 0 ELSE 1 + Depth(groups[g].ParentRouter)

\* g and the groups above it.
RECURSIVE AncestorsOrSelf(_)
AncestorsOrSelf(g) ==
    IF groups[g].ParentRouter = 0 THEN {g}
    ELSE {g} \cup AncestorsOrSelf(groups[g].ParentRouter)

\* The middleware a request passed on the way in, and on the way out.
BeforeIds(events) ==
    LET idx == {i \in 1..Len(events) : events[i].ev = "before"}
    IN  [j \in 1..Cardinality(idx) |->
            events[CHOOSE i \in idx : Cardinality({k \in idx : k < i}) = j - 1].id]

AfterIds(events) ==
    LET idx == {i \in 1..Len(events) : events[i].ev = "after"}
    IN  [j \in 1..Cardinality(idx) |->
            events[CHOOSE i \in idx : Cardinality({k \in idx : k < i}) = j - 1].id]

\* C5: a dispatched request passes the middleware in registration order, the
\* root's first, then each ancestor's, then the leaf group's, then the handler;
\* the code before downstream runs in that order, the code after it in reverse.
C5_MiddlewareOrder ==
    trace.route # 0 =>
        LET ev == trace.events
            b == BeforeIds(ev)
            a == AfterIds(ev)
            n == Len(b)
        IN  /\ Len(ev) = 2 * n + 1
            /\ \A i \in 1..n : ev[i].ev = "before"
            /\ ev[n + 1] = Event("handler", "H")
            /\ \A i \in 1..n : ev[n + 1 + i].ev = "after"
            /\ Len(a) = n
            /\ \A i \in 1..n : a[i] = b[n + 1 - i]
            /\ \A i \in 1..n : Owner(b[i]) \in AncestorsOrSelf(routes[trace.route].group)
            /\ \A i, j \in 1..n :
                  i < j =>
                     \/ Depth(Owner(b[i])) < Depth(Owner(b[j]))
                     \/ Owner(b[i]) = Owner(b[j]) /\ b[i] < b[j]
            /\ b = routes[trace.route].registered

\* C5 witness: root middleware A (1), group middleware B (2) around handler H:
\* A-before, B-before, H, B-after, A-after.
C5_Witness ==
    /\ trace.route # 0
    /\ Len(groups) >= 2
    /\ groups[1].own = <<1>>
    /\ groups[2].own = <<2>>
    /\ routes[trace.route].group = 2
    /\ trace.events = <<Event("before", 1), Event("before", 2), Event("handler", "H"),
                        Event("after", 2), Event("after", 1)>>

\* C6 as stated: every child group's middleware sequence is its parent's sequence
\* followed by the child's own additions.
C6_AsStated ==
    \A g \in DOMAIN groups :
        groups[g].ParentRouter # 0 =>
            groups[g].middlewares =
                groups[groups[g].ParentRouter].middlewares \o groups[g].own

\* C6 amended: every child group's middleware sequence is its parent's sequence
\* as it was when the child was created, followed by the child's own additions
\* (those passed to Group and to the child's Use), in that order.
C6_ChildInheritsAtCreation ==
    \A g \in DOMAIN groups :
        groups[g].ParentRouter # 0 =>
            /\ groups[g].inh <= Len(groups[groups[g].ParentRouter].middlewares)
            /\ groups[g].middlewares =
                   SubSeq(groups[groups[g].ParentRouter].middlewares, 1, groups[g].inh)
                       \o groups[g].own

\* C6 witness: a child that inherited a middleware, added its own, and whose
\* parent was given another middleware after the child was created.
C6_Witness ==
    \E g \in DOMAIN groups :
        /\ groups[g].ParentRouter # 0
        /\ groups[g].inh >= 1
        /\ Len(groups[g].own) >= 1
        /\ Len(groups[groups[g].ParentRouter].middlewares) > groups[g].inh

\* C7: the chain of a registered route is fixed at registration: whatever Use did
\* since, on the registering group or above it, a dispatched request passes
\* exactly the middleware the group had when the route was registered, in that
\* order, and the handler the mux calls is the one composed then.
C7_ChainFixedAtRegistration ==
    /\ \A i \in 1..Len(routes) :
          RunChain(RouteHandler(i)) =
              [j \in 1..(2 * Len(routes[i].registered) + 1) |->
                  IF j <= Len(routes[i].registered)
                  THEN Event("before", routes[i].registered[j])
                  ELSE IF j = Len(routes[i].registered) + 1
                  THEN Event("handler", "H")
                  ELSE Event("after",
                             routes[i].registered[2 * Len(routes[i].registered) + 2 - j])]
    /\ trace.route # 0 => BeforeIds(trace.events) = routes[trace.route].registered

\* C7 witness: a request is dispatched to a route after Use extended the
\* registering group and its parent, and passes none of the later middleware.
C7_Witness ==
    /\ trace.route # 0
    /\ LET g == routes[trace.route].group
       IN  /\ groups[g].ParentRouter # 0
           /\ Len(groups[g].middlewares) > Len(routes[trace.route].registered)
           /\ Len(groups[groups[g].ParentRouter].middlewares) > groups[g].inh
           /\ Len(routes[trace.route].registered) >= 1
           /\ BeforeIds(trace.events) = routes[trace.route].registered

\* C8: middleware added to a group stays in that group and below it: the sequence
\* of a group holds only middleware added to it or to a group above it, and a
\* dispatched request passes only middleware of the route's group and the groups
\* above it, never a sibling's or a child's.
C8_SiblingIsolation ==
    /\ \A g \in DOMAIN groups :
          \A j \in 1..Len(groups[g].middlewares) :
              Owner(groups[g].middlewares[j]) \in AncestorsOrSelf(g)
    /\ \A i \in 1..Len(routes) :
          \A j \in 1..(Len(routes[i].fhandler) - 1) :
              Owner(routes[i].fhandler[j]) \in AncestorsOrSelf(routes[i].group)
    /\ trace.route # 0 =>
          \A j \in 1..Len(trace.events) :
              trace.events[j].ev # "handler" =>
                  Owner(trace.events[j].id) \in AncestorsOrSelf(routes[trace.route].group)

\* C8 witness: root middleware M_ROOT (1), siblings /api with M_API (2) and /admin
\* with M_ADMIN (3); a request to GET /admin/users passes M_ROOT then M_ADMIN.
C8_Witness ==
    /\ Len(groups) = 3
    /\ groups[1].middlewares = <<1>>
    /\ groups[2].ParentRouter = 1 /\ groups[2].middlewares = <<1, 2>>
    /\ groups[3].ParentRouter = 1 /\ groups[3].middlewares = <<1, 3>>
    /\ trace.route # 0
    /\ routes[trace.route].group = 3
    /\ routes[trace.route].pattern = <<"GET", " ", "/admin", "/users">>
    /\ BeforeIds(trace.events) = <<1, 3>>

\* The prefixes given to Group along the chain from the root to group g, in that
\* order (the application gives PrefixOf(id) to the group it creates as the id-th).
RECURSIVE ChainPrefixes(_)
ChainPrefixes(g) ==
    IF groups[g].ParentRouter = 0 THEN <<>>
    ELSE ChainPrefixes(groups[g].ParentRouter) \o <<PrefixOf(g)>>

\* C27: Handle(method, path, h) on a group registers the pattern method, " ",
\* P, path when method is non-empty and P, path when it is empty, P being the
\* prefixes given to Group along the chain from the root to that group, in that
\* order; HandleRaw registers the pattern it is given, without P; both register
\* the handler wrapped in the middleware the group holds at that moment.
C27_RegisteredPattern ==
    \A i \in 1..Len(routes) :
        LET rt == routes[i]
            P == ChainPrefixes(rt.group)
            last == rt.pattern[Len(rt.pattern)]
        IN  /\ last = "/users" => rt.pattern = <<"GET", " ">> \o P \o <<"/users">>
            /\ last = "/any" => rt.pattern = P \o <<"/any">>
            /\ last = "example.com/" => rt.pattern = <<"example.com/">>
            /\ last \in {"/users", "/any", "example.com/"}
            /\ BeforeIds(RunChain(rt.fhandler)) = rt.registered
            /\ rt.fhandler[Len(rt.fhandler)] = "H"

\* C27 witness: GET /users was registered on a group two levels below the root,
\* created with "/admin" under the group created with "/api".
C27_Witness ==
    \E i \in 1..Len(routes) :
        /\ Depth(routes[i].group) = 2
        /\ routes[i].pattern = <<"GET", " ", "/api", "/admin", "/users">>
        /\ Len(routes[i].registered) > 0

====
